---- MODULE Spec2Model ----
(***************************************************************************)
(* Mechanics roster optimisation: DataLoader.load_data, the 0/1 integer    *)
(* program built by RosterOptimizer.create_model, the solve step, the      *)
(* extraction of the assignments and the accounting done by the            *)
(* application's main, the Position column of the roster workbook and the  *)
(* validation of the configuration.                                        *)
(*                                                                         *)
(* Tables (pandas DataFrames) are records [columns, rows]; a row is a      *)
(* function from the column names to cells.  A column name is the tuple of *)
(* the pieces the code concatenates (<<"aw139", "_af", "_inspec">> is      *)
(* "aw139_af_inspec").  A cell is <<n>> for the number n and <<>> for an   *)
(* empty (NaN) cell.  An optional value is <<>> for None and <<v>> for v.  *)
(***************************************************************************)
EXTENDS Integers, Sequences, FiniteSets, TLC

VARIABLES pc, data, load_warned, solver_name, solver, x, mechanic_skills,
          mechanic_inspector_skills, inspector_req_columns, avoidance_vars,
          status, values, assignments, total_cost, total_avoidance_penalty,
          objective_value, raised, called, created_solvers,
          positions, environ, config, position_args, position, uploaded,
          time_limit_seconds

\* the application run: the loaded data, the optimizer's fields, the last
\* solve and what main derives from it
roster_vars == <<pc, data, load_warned, solver_name, solver, x, mechanic_skills,
                 mechanic_inspector_skills, inspector_req_columns, avoidance_vars,
                 status, values, assignments, total_cost, total_avoidance_penalty,
                 objective_value, raised, called, created_solvers>>

\* the Position column written by ExcelGenerator.generate_output
render_vars == <<positions>>

\* os.environ and the Config object built from it
config_vars == <<environ, config>>

\* one call of get_position: its arguments and what it returned
position_vars == <<position_args, position>>

\* the required workbooks the user has uploaded when the run button is pressed
app_vars == <<uploaded>>

\* the argument of the last solve call of a sequence of calls
call_vars == <<time_limit_seconds>>

vars == <<roster_vars, render_vars, config_vars, position_vars, app_vars, call_vars>>

\* ------------------------------------------------------------------ bounds

\* mechanic ids of the skills table are 1..NumMech
NumMech == 3
\* at most this many rows in the avoidance table
MaxAvoidRows == 2

\* --------------------------------------------------------- cells, options

None == <<>>
Some(v) == <<v>>
NaN == <<>>
Cell(n) == <<n>>
\* pd.notna(cell)
notna(c) == c # NaN
\* cell > 0 (False for NaN, as any comparison with NaN is)
gt0(c) == c # NaN /\ c[1] > 0

\* ------------------------------------------------------------ sequences

RECURSIVE SetToSortedSeq(_)
\* sorted(list of a set of integers)
SetToSortedSeq(S) ==
    IF S = {} THEN <<>>
    ELSE LET lo == CHOOSE a \in S : \A b \in S : a <= b
         IN <<lo>> \o SetToSortedSeq(S \ {lo})

Range(s) == {s[i] : i \in DOMAIN s}

\* mutant: the distinct values are kept in their order of appearance (no sort)
unique_unsorted(df, col) ==
    LET first == SelectSeq([i \in DOMAIN df.rows |-> i],
                           LAMBDA i : \A j \in 1..(i - 1) : df.rows[j][col] # df.rows[i][col])
    IN [n \in DOMAIN first |-> df.rows[first[n]][col][1]]

\* sorted(df[col].unique().tolist())
sorted_unique(df, col) ==
    SetToSortedSeq({df.rows[i][col][1] : i \in DOMAIN df.rows})

\* f with key k set to v (dict[k] = v)
Put(f, k, v) == [kk \in (DOMAIN f) \cup {k} |-> IF kk = k THEN v ELSE f[kk]]

EmptyDict == [kk \in {} |-> 0]

\* -------------------------------------------------------- column names

aircraft_types == {"aw139", "h175", "sk92"}
skill_types == {"_af", "_r", "_av"}

\* f"{aircraft}{skill}" and f"{aircraft}{skill}_inspec"
col_name(aircraft, skill) == <<aircraft, skill>>
inspector_col_name(aircraft, skill) == <<aircraft, skill, "_inspec">>

\* col.endswith("_inspec")
endswith_inspec(col) == Len(col) > 0 /\ col[Len(col)] = "_inspec"

\* mutant: the suffix is not stripped
replace_inspec_kept(col) == col

\* inspector_col.replace("_inspec", "")
replace_inspec(col) == SelectSeq(col, LAMBDA t : t # "_inspec")

\* ---------------------------------------------------------- load_data

\* DataLoader.base_column_mapping
base_column_mapping == [c \in {<<"A">>, <<"B">>, <<"C">>} |->
                          IF c = <<"A">> THEN 1 ELSE IF c = <<"B">> THEN 2 ELSE 3]

\* the cost_dict loop: a later row of the same id overwrites an earlier one
cost_dict_of(df) ==
    LET keys == {<<df.rows[i][<<"id">>][1], base_column_mapping[c]>> :
                   i \in DOMAIN df.rows,
                   c \in (DOMAIN base_column_mapping) \cap df.columns}
        last(k) == CHOOSE i \in DOMAIN df.rows :
                     /\ df.rows[i][<<"id">>][1] = k[1]
                     /\ \A j \in DOMAIN df.rows :
                          df.rows[j][<<"id">>][1] = k[1] => j <= i
        colof(k) == CHOOSE c \in DOMAIN base_column_mapping :
                      base_column_mapping[c] = k[2]
    IN [k \in keys |-> df.rows[last(k)][colof(k)][1]]

AvoidCols == {<<"mechanic_id">>, <<"avoid_mechanic_id">>, <<"penalty">>}

\* row i raises: a column is missing (KeyError), or int() is given an empty
\* mechanic_id or avoid_mechanic_id cell (ValueError).  The penalty cells of
\* the inputs are numbers.
row_raises(df, i) ==
    \/ \E c \in AvoidCols : c \notin df.columns
    \/ df.rows[i][<<"mechanic_id">>] = NaN
    \/ df.rows[i][<<"avoid_mechanic_id">>] = NaN

RECURSIVE avoidance_loop_one_way(_, _, _)
\* mutant: only the key (m1, m2) is written
avoidance_loop_one_way(df, i, dict) ==
    IF i > Len(df.rows) THEN [dict |-> dict, failed |-> FALSE]
    ELSE IF \/ \E c \in {<<"mechanic_id">>, <<"avoid_mechanic_id">>, <<"penalty">>} :
                    c \notin df.columns
            \/ df.rows[i][<<"mechanic_id">>] = <<>>
            \/ df.rows[i][<<"avoid_mechanic_id">>] = <<>>
         THEN [dict |-> dict, failed |-> TRUE]
    ELSE avoidance_loop_one_way(df, i + 1,
             [kk \in (DOMAIN dict) \cup {<<df.rows[i][<<"mechanic_id">>][1],
                                          df.rows[i][<<"avoid_mechanic_id">>][1]>>} |->
                IF kk = <<df.rows[i][<<"mechanic_id">>][1],
                          df.rows[i][<<"avoid_mechanic_id">>][1]>>
                THEN df.rows[i][<<"penalty">>][1] ELSE dict[kk]])

RECURSIVE avoidance_loop(_, _, _)
\* the body of the try block from row i on, with the dictionary built so
\* far; an exception leaves the loop and keeps what was written before it
avoidance_loop(df, i, dict) ==
    IF i > Len(df.rows) THEN [dict |-> dict, failed |-> FALSE]
    ELSE IF row_raises(df, i) THEN [dict |-> dict, failed |-> TRUE]
    ELSE LET m1 == df.rows[i][<<"mechanic_id">>][1]
             m2 == df.rows[i][<<"avoid_mechanic_id">>][1]
             penalty == df.rows[i][<<"penalty">>][1]
         IN avoidance_loop(df, i + 1,
                Put(Put(dict, <<m1, m2>>, penalty), <<m2, m1>>, penalty))

\* the optional avoidance list: file is None, or Some of a workbook that
\* pd.read_excel can read (readable) or not
load_avoidance(file) ==
    IF file = None THEN [dict |-> EmptyDict, failed |-> FALSE]
    ELSE IF ~file[1].readable THEN [dict |-> EmptyDict, failed |-> TRUE]
    ELSE avoidance_loop(file[1], 1, EmptyDict)

\* the dictionary load_data returns
load_data(skills_file, schedule_file, cost_file, avoidance_file) ==
    [ mechanic_skills_df |-> skills_file,
      mechanics |-> sorted_unique(skills_file, <<"mechanic_id">>),
      base_schedule_df |-> schedule_file,
      bases |-> sorted_unique(schedule_file, <<"base_id">>),
      periods |-> sorted_unique(schedule_file, <<"period">>),
      shifts |-> sorted_unique(schedule_file, <<"shift">>),
      cost_dict |-> cost_dict_of(cost_file),
      avoidance_dict |-> load_avoidance(avoidance_file).dict ]

\* -------------------------------------------------------- create_model

\* the bounds of a constraint: <<n>> is the number n, <<>> is
\* solver.infinity() as an upper bound and -solver.infinity() as a lower one
infinity == <<>>
Num(n) == <<n>>

slots_of(d) == Range(d.bases) \X Range(d.periods) \X Range(d.shifts)

\* the name given to solver.IntVar(0, 1, var_name) stands for the variable
x_var(m, b, g, s) == <<"x", m, b, g, s>>
y_var(m1, m2, b, g, s) == <<"y_avoid", m1, m2, b, g, s>>

\* x = {(m, b, g, s): IntVar}
x_of(d) ==
    [k \in Range(d.mechanics) \X Range(d.bases) \X Range(d.periods) \X Range(d.shifts)
       |-> x_var(k[1], k[2], k[3], k[4])]

\* the last row of the skills table that carries mechanic_id m
skill_row(df, m) ==
    df.rows[CHOOSE i \in DOMAIN df.rows :
              /\ df.rows[i][<<"mechanic_id">>][1] = m
              /\ \A j \in DOMAIN df.rows :
                   df.rows[j][<<"mechanic_id">>][1] = m => j <= i]

skill_ids(df) == {df.rows[i][<<"mechanic_id">>][1] : i \in DOMAIN df.rows}

\* mechanic_skills[m][col_name] = int(row[col_name]) for the columns present
mechanic_skills_of(df) ==
    [m \in skill_ids(df) |->
       [c \in {col_name(a, k) : a \in aircraft_types, k \in skill_types} \cap df.columns
          |-> skill_row(df, m)[c][1]]]

mechanic_inspector_skills_of(df) ==
    [m \in skill_ids(df) |->
       [c \in {inspector_col_name(a, k) : a \in aircraft_types, k \in skill_types}
              \cap df.columns
          |-> skill_row(df, m)[c][1]]]

\* dict.get(key, 0)
get0(dict, key) == IF key \in DOMAIN dict THEN dict[key] ELSE 0

\* mutant: the constraint is opened inside the loop over the bases, one
\* per mechanic and base
single_assignment_per_base(d, xs) ==
    { [ name |-> <<"mechanic_single_assignment", mb[1]>>, row |-> mb[2],
        lb |-> <<0>>, ub |-> <<1>>,
        coef |-> [v \in {xs[<<mb[1], mb[2], t[1], t[2]>>] :
                           t \in Range(d.periods) \X Range(d.shifts)} |-> 1] ]
      : mb \in Range(d.mechanics) \X Range(d.bases) }

\* Constraint 1: each mechanic <= 1 assignment
single_assignment_constraints(d, xs) ==
    { [ name |-> <<"mechanic_single_assignment", m>>, row |-> 0,
        lb |-> Num(0), ub |-> Num(1),
        coef |-> [v \in {xs[<<m, t[1], t[2], t[3]>>] : t \in slots_of(d)} |-> 1] ]
      : m \in Range(d.mechanics) }

row_slot(row) == <<row[<<"base_id">>][1], row[<<"period">>][1], row[<<"shift">>][1]>>

\* the mechanics whose skill dictionary has the column at 1
holders(skills, mechanics, col) == {m \in mechanics : get0(skills[m], col) = 1}

\* mutant: one constraint per aircraft, met by a holder of any discipline
skill_coverage_any_discipline(d, xs, skills) ==
    LET df == d.base_schedule_df
        any(m, a) == \E k \in {"_af", "_r", "_av"} :
                       <<a, k>> \in DOMAIN skills[m] /\ skills[m][<<a, k>>] = 1
    IN { [ name |-> <<"skill", <<t[2]>>, df.rows[t[1]][<<"base_id">>][1],
                      df.rows[t[1]][<<"period">>][1], df.rows[t[1]][<<"shift">>][1]>>,
           row |-> t[1],
           lb |-> <<1>>, ub |-> <<>>,
           coef |-> [v \in {xs[<<m, df.rows[t[1]][<<"base_id">>][1],
                                 df.rows[t[1]][<<"period">>][1],
                                 df.rows[t[1]][<<"shift">>][1]>>] :
                              m \in {mm \in Range(d.mechanics) : any(mm, t[2])}}
                       |-> 1] ]
         : t \in { u \in (DOMAIN df.rows) \X {"aw139", "h175", "sk92"} :
                     /\ <<u[2]>> \in df.columns
                     /\ df.rows[u[1]][<<u[2]>>] # <<>>
                     /\ df.rows[u[1]][<<u[2]>>][1] > 0 } }

\* mutant: the aircraft count of the row is the right-hand side
skill_coverage_scaled(d, xs, skills) ==
    LET df == d.base_schedule_df
    IN { [ name |-> <<"skill", <<t[2], t[3]>>, df.rows[t[1]][<<"base_id">>][1],
                      df.rows[t[1]][<<"period">>][1], df.rows[t[1]][<<"shift">>][1]>>,
           row |-> t[1],
           lb |-> <<df.rows[t[1]][<<t[2]>>][1]>>, ub |-> <<>>,
           coef |-> [v \in {xs[<<m, df.rows[t[1]][<<"base_id">>][1],
                                 df.rows[t[1]][<<"period">>][1],
                                 df.rows[t[1]][<<"shift">>][1]>>] :
                              m \in {mm \in Range(d.mechanics) :
                                       /\ <<t[2], t[3]>> \in DOMAIN skills[mm]
                                       /\ skills[mm][<<t[2], t[3]>>] = 1}}
                       |-> 1] ]
         : t \in { u \in (DOMAIN df.rows) \X {"aw139", "h175", "sk92"} \X {"_af", "_r", "_av"} :
                     /\ <<u[2]>> \in df.columns
                     /\ df.rows[u[1]][<<u[2]>>] # <<>>
                     /\ df.rows[u[1]][<<u[2]>>][1] > 0 } }

\* Constraint 2: skill coverage, one constraint per row, aircraft with a
\* positive count and discipline
skill_coverage_constraints(d, xs, skills) ==
    LET df == d.base_schedule_df
    IN { [ name |-> <<"skill", col_name(t[2], t[3])>> \o row_slot(df.rows[t[1]]),
           row |-> t[1],
           lb |-> Num(1), ub |-> infinity,
           coef |-> [v \in {xs[<<m>> \o row_slot(df.rows[t[1]])] :
                              m \in holders(skills, Range(d.mechanics), col_name(t[2], t[3]))}
                       |-> 1] ]
         : t \in { u \in (DOMAIN df.rows) \X aircraft_types \X skill_types :
                     /\ <<u[2]>> \in df.columns
                     /\ gt0(df.rows[u[1]][<<u[2]>>]) } }

\* [col for col in base_schedule_df.columns if col.endswith("_inspec")]
inspector_req_columns_of(df) == {c \in df.columns : endswith_inspec(c)}

\* mutant: every non-null requirement counts, 0 and negative ones too
active_inspector_notna_only(df) ==
    { u \in (DOMAIN df.rows) \X {c \in df.columns : c[Len(c)] = "_inspec"} :
        df.rows[u[1]][u[2]] # <<>> }

\* mutant: a requirement of 1 does not count (> 1 for > 0)
active_inspector_above_one(df) ==
    { u \in (DOMAIN df.rows) \X {c \in df.columns : c[Len(c)] = "_inspec"} :
        df.rows[u[1]][u[2]] # <<>> /\ df.rows[u[1]][u[2]][1] > 1 }

\* the (row, inspector column) pairs with a non-null, positive requirement
active_inspector(df) ==
    { u \in (DOMAIN df.rows) \X inspector_req_columns_of(df) :
        notna(df.rows[u[1]][u[2]]) /\ gt0(df.rows[u[1]][u[2]]) }

\* mutant: the holders are looked up in the regular skills, under the
\* regular name of the column
inspector_coverage_by_regular(d, xs, insp) ==
    LET df == d.base_schedule_df
        reg(m, c) == \E i \in DOMAIN d.mechanic_skills_df.rows :
                       /\ d.mechanic_skills_df.rows[i][<<"mechanic_id">>] = <<m>>
                       /\ d.mechanic_skills_df.rows[i][SubSeq(c, 1, Len(c) - 1)] = <<1>>
    IN { [ name |-> <<"inspector", t[2], df.rows[t[1]][<<"base_id">>][1],
                      df.rows[t[1]][<<"period">>][1], df.rows[t[1]][<<"shift">>][1]>>,
           row |-> t[1],
           lb |-> <<1>>, ub |-> <<>>,
           coef |-> [v \in {xs[<<m, df.rows[t[1]][<<"base_id">>][1],
                                 df.rows[t[1]][<<"period">>][1],
                                 df.rows[t[1]][<<"shift">>][1]>>] :
                              m \in {mm \in Range(d.mechanics) : reg(mm, t[2])}}
                       |-> 1] ]
         : t \in { u \in (DOMAIN df.rows) \X {c \in df.columns : c[Len(c)] = "_inspec"} :
                     df.rows[u[1]][u[2]] # <<>> /\ df.rows[u[1]][u[2]][1] > 0 } }

\* Constraint 3: inspector coverage
inspector_coverage_constraints(d, xs, insp) ==
    LET df == d.base_schedule_df
    IN { [ name |-> <<"inspector", t[2]>> \o row_slot(df.rows[t[1]]),
           row |-> t[1],
           lb |-> Num(1), ub |-> infinity,
           coef |-> [v \in {xs[<<m>> \o row_slot(df.rows[t[1]])] :
                              m \in holders(insp, Range(d.mechanics), t[2])}
                       |-> 1] ]
         : t \in active_inspector(df) }

\* other_mechanics_with_skill
other_mechanics_with_skill(d, skills, m_inspector, regular_skill_name) ==
    holders(skills, Range(d.mechanics), regular_skill_name) \ {m_inspector}

\* mutant: the constraint is added also when no other mechanic holds the
\* regular skill (the inspector's variable is then <= 0)
no_self_inspect_unconditional(d, xs, skills, insp) ==
    LET df == d.base_schedule_df
        reg(c) == SelectSeq(c, LAMBDA t : t # "_inspec")
        others(t) == {m \in Range(d.mechanics) :
                        m # t[3] /\ reg(t[2]) \in DOMAIN skills[m] /\ skills[m][reg(t[2])] = 1}
        var(m, t) == xs[<<m, df.rows[t[1]][<<"base_id">>][1], df.rows[t[1]][<<"period">>][1],
                          df.rows[t[1]][<<"shift">>][1]>>]
    IN { [ name |-> <<"no_self_inspect", t[2], df.rows[t[1]][<<"base_id">>][1],
                      df.rows[t[1]][<<"period">>][1], df.rows[t[1]][<<"shift">>][1], t[3]>>,
           row |-> t[1],
           lb |-> <<>>, ub |-> <<0>>,
           coef |-> [v \in {var(m, t) : m \in others(t) \cup {t[3]}} |->
                       IF v = var(t[3], t) THEN 1 ELSE -1] ]
         : t \in { u \in (DOMAIN df.rows) \X {c \in df.columns : c[Len(c)] = "_inspec"}
                         \X Range(d.mechanics) :
                     /\ df.rows[u[1]][u[2]] # <<>>
                     /\ df.rows[u[1]][u[2]][1] > 0
                     /\ u[2] \in DOMAIN insp[u[3]]
                     /\ insp[u[3]][u[2]] = 1 } }

\* Constraint 4: no self-inspection
no_self_inspect_constraints(d, xs, skills, insp) ==
    LET df == d.base_schedule_df
        others(t) == other_mechanics_with_skill(d, skills, t[3], replace_inspec(t[2]))
        var(m, t) == xs[<<m>> \o row_slot(df.rows[t[1]])]
    IN { [ name |-> <<"no_self_inspect", t[2]>> \o row_slot(df.rows[t[1]]) \o <<t[3]>>,
           row |-> t[1],
           lb |-> infinity, ub |-> Num(0),
           coef |-> [v \in {var(m, t) : m \in others(t) \cup {t[3]}} |->
                       IF v = var(t[3], t) THEN 1 ELSE -1] ]
         : t \in { u \in (DOMAIN df.rows) \X inspector_req_columns_of(df)
                         \X Range(d.mechanics) :
                     /\ <<u[1], u[2]>> \in active_inspector(df)
                     /\ get0(insp[u[3]], u[2]) = 1
                     /\ others(u) # {} } }

\* mutant: a pair that names a mechanic outside the pool is skipped
unique_pairs_in_pool(d) ==
    {k \in DOMAIN d.avoidance_dict :
       k[1] < k[2] /\ k[1] \in Range(d.mechanics) /\ k[2] \in Range(d.mechanics)}

\* mutant: every key of two different mechanics is a pair
unique_pairs_both_orders(d) == {k \in DOMAIN d.avoidance_dict : k[1] # k[2]}

\* unique_pairs: the keys (m1, m2) of avoidance_dict with m1 < m2
unique_pairs(d) == {k \in DOMAIN d.avoidance_dict : k[1] < k[2]}

\* mutant: pairs with penalty 0 get no variable
avoidance_vars_nonzero(d) ==
    [k \in {<<p[1], p[2], t[1], t[2], t[3]>> :
              p \in {q \in DOMAIN d.avoidance_dict : q[1] < q[2] /\ d.avoidance_dict[q] # 0},
              t \in Range(d.bases) \X Range(d.periods) \X Range(d.shifts)}
       |-> <<"y_avoid", k[1], k[2], k[3], k[4], k[5]>>]

\* avoidance_vars = {(m1, m2, b, g, s): IntVar}
avoidance_vars_of(d) ==
    [k \in {<<p[1], p[2], t[1], t[2], t[3]>> : p \in unique_pairs(d), t \in slots_of(d)}
       |-> y_var(k[1], k[2], k[3], k[4], k[5])]

\* x[(m1, b, g, s)] or x[(m2, b, g, s)] raises KeyError in the
\* linearization loop: a mechanic of a pair is not in the pool
linearization_raises(d) ==
    /\ slots_of(d) # {}
    /\ \E p \in unique_pairs(d) :
         p[1] \notin Range(d.mechanics) \/ p[2] \notin Range(d.mechanics)

\* Linearization constraints c1, c2, c3 of every pair and slot
linearization_constraints(d, xs, ys) ==
    LET keys == DOMAIN ys
        x1(k) == xs[<<k[1], k[3], k[4], k[5]>>]
        x2(k) == xs[<<k[2], k[3], k[4], k[5]>>]
    IN  { [ name |-> <<"avoid_y_le_x1">> \o k, row |-> 0,
            lb |-> infinity, ub |-> Num(0),
            coef |-> [v \in {ys[k], x1(k)} |-> IF v = ys[k] THEN 1 ELSE -1] ]
          : k \in keys }
        \cup
        { [ name |-> <<"avoid_y_le_x2">> \o k, row |-> 0,
            lb |-> infinity, ub |-> Num(0),
            coef |-> [v \in {ys[k], x2(k)} |-> IF v = ys[k] THEN 1 ELSE -1] ]
          : k \in keys }
        \cup
        { [ name |-> <<"avoid_y_ge_sum">> \o k, row |-> 0,
            lb |-> Num(-1), ub |-> infinity,
            coef |-> [v \in {ys[k], x1(k), x2(k)} |-> IF v = ys[k] THEN -1 ELSE 1] ]
          : k \in keys }

\* mutant: the cost is charged per shift number
movement_coefficient_by_shift(d, k) ==
    (IF <<k[1], k[2]>> \in DOMAIN d.cost_dict THEN d.cost_dict[<<k[1], k[2]>>] ELSE 0) * k[4]

\* mutant: the cost is looked up under (b, m)
movement_coefficient_swapped_key(d, k) ==
    IF <<k[2], k[1]>> \in DOMAIN d.cost_dict THEN d.cost_dict[<<k[2], k[1]>>] ELSE 0

\* objective.SetCoefficient(x[(m, b, g, s)], cost_dict.get((m, b), 0))
movement_coefficient(d, k) == get0(d.cost_dict, <<k[1], k[2]>>)

\* objective.SetCoefficient(avoidance_vars[(m1, m2, b, g, s)], avoidance_dict[(m1, m2)])
penalty_coefficient(d, k) == d.avoidance_dict[<<k[1], k[2]>>]

\* the coefficients of the objective, by variable
objective_of(d, xs, ys) ==
    [v \in Range(xs) \cup Range(ys) |->
       IF v \in Range(xs)
       THEN movement_coefficient(d, CHOOSE k \in DOMAIN xs : xs[k] = v)
       ELSE penalty_coefficient(d, CHOOSE k \in DOMAIN ys : ys[k] = v)]

\* what create_model builds and returns
create_model(d) ==
    LET xs == x_of(d)
        skills == mechanic_skills_of(d.mechanic_skills_df)
        insp == mechanic_inspector_skills_of(d.mechanic_skills_df)
        cols == inspector_req_columns_of(d.base_schedule_df)
        ys == IF DOMAIN d.avoidance_dict # {} THEN avoidance_vars_of(d) ELSE EmptyDict
    IN [ solver |->
           [ variables |-> Range(xs) \cup Range(ys),
             constraints |->
                 single_assignment_constraints(d, xs)
                   \cup skill_coverage_constraints(d, xs, skills)
                   \cup (IF cols # {} THEN inspector_coverage_constraints(d, xs, insp)
                         ELSE {})
                   \cup (IF cols # {} THEN no_self_inspect_constraints(d, xs, skills, insp)
                         ELSE {})
                   \cup (IF DOMAIN d.avoidance_dict # {}
                         THEN linearization_constraints(d, xs, ys) ELSE {}),
             objective |-> objective_of(d, xs, ys),
             time_limit |-> None ],
         x |-> xs,
         mechanic_skills |-> skills,
         mechanic_inspector_skills |-> insp,
         inspector_req_columns |-> cols,
         avoidance_vars |-> ys ]

\* ------------------------------------------------- the 0/1 program, solved

RECURSIVE SumOver(_, _, _)
SumOver(S, coef, v) ==
    IF S = {} THEN 0
    ELSE LET k == CHOOSE kk \in S : TRUE
         IN coef[k] * v[k] + SumOver(S \ {k}, coef, v)

\* the value of the linear expression coef under the variable values v
LinSum(coef, v) == SumOver(DOMAIN coef, coef, v)

\* lb <= expression <= ub
satisfies(c, v) ==
    LET e == LinSum(c.coef, v)
    IN /\ c.lb = infinity \/ c.lb[1] <= e
       /\ c.ub = infinity \/ e <= c.ub[1]

\* the integer points of the model: IntVar(0, 1) values meeting every constraint
feasible_points(model) ==
    {v \in [model.variables -> {0, 1}] : \A c \in model.constraints : satisfies(c, v)}

\* solver.Objective().Value()
objective_at(model, v) == LinSum(model.objective, v)

\* mutant: every feasible point is reported as the optimum
optimal_points_any(model, F) == F

\* the minimisers of the objective among the points F (SetMinimization)
optimal_points(model, F) ==
    {v \in F : \A w \in F : objective_at(model, v) <= objective_at(model, w)}

\* solution_value() of every variable when the last solve left no solution
no_solution(model) == [v \in model.variables |-> 0]

\* ------------------------------------------------------------ the inputs

\* the workbooks handed to load_data.  Skills: one row per mechanic
\* 1..NumMech, each with one of the profiles <<af, r, av, af_inspec>> of the
\* aw139 columns.
SkillColumns == { <<"mechanic_id">>, <<"aw139", "_af">>, <<"aw139", "_r">>,
                  <<"aw139", "_av">>, <<"aw139", "_af", "_inspec">> }

Profiles == { <<1, 1, 1, 1>>, <<1, 0, 0, 0>>, <<0, 1, 1, 0>> }

skill_cell(i, p, c) ==
    IF c = <<"mechanic_id">> THEN Cell(i)
    ELSE IF c = <<"aw139", "_af">> THEN Cell(p[1])
    ELSE IF c = <<"aw139", "_r">> THEN Cell(p[2])
    ELSE IF c = <<"aw139", "_av">> THEN Cell(p[3])
    ELSE Cell(p[4])

SkillFiles ==
    { [ columns |-> SkillColumns,
        rows |-> [i \in 1..NumMech |-> [c \in SkillColumns |-> skill_cell(i, ps[i], c)]] ]
      : ps \in [1..NumMech -> Profiles] }

\* Schedule: a row for slot (1,1,1) and possibly a second row, each with an
\* aw139 count and an aw139_af_inspec requirement <<count, requirement>>
ScheduleColumns == { <<"base_id">>, <<"period">>, <<"shift">>, <<"aw139">>,
                     <<"aw139", "_af", "_inspec">> }

Demands == { <<Cell(1), NaN>>, <<Cell(1), Cell(1)>>, <<Cell(0), Cell(1)>>,
             <<Cell(2), Cell(0)>> }

SecondSlots == { <<2, 1, 1>>, <<1, 1, 2>> }

SecondDemands == { <<Cell(1), NaN>>, <<Cell(1), Cell(1)>> }

schedule_row(slot, dm) ==
    [c \in ScheduleColumns |->
       IF c = <<"base_id">> THEN Cell(slot[1])
       ELSE IF c = <<"period">> THEN Cell(slot[2])
       ELSE IF c = <<"shift">> THEN Cell(slot[3])
       ELSE IF c = <<"aw139">> THEN dm[1]
       ELSE dm[2]]

ScheduleFiles ==
    { [columns |-> ScheduleColumns, rows |-> <<schedule_row(<<1, 1, 1>>, d1)>>]
      : d1 \in Demands }
    \cup
    { [columns |-> ScheduleColumns,
       rows |-> <<schedule_row(<<1, 1, 1>>, t[1]), schedule_row(t[2], t[3])>>]
      : t \in Demands \X SecondSlots \X SecondDemands }

\* Cost: a full table (a row per mechanic, columns A and B) and a partial
\* one (no row for the last mechanic, column A only)
CostFiles ==
    { [ columns |-> {<<"id">>, <<"A">>, <<"B">>},
        rows |-> [i \in 1..NumMech |->
                    [c \in {<<"id">>, <<"A">>, <<"B">>} |->
                       IF c = <<"id">> THEN Cell(i)
                       ELSE IF c = <<"A">> THEN Cell(5 * i)
                       ELSE Cell(5 * (NumMech + 1 - i))]] ],
      [ columns |-> {<<"id">>, <<"A">>},
        rows |-> [i \in 1..(NumMech - 1) |->
                    [c \in {<<"id">>, <<"A">>} |->
                       IF c = <<"id">> THEN Cell(i) ELSE Cell(10 * (i % 2))]] ] }

\* Avoidance: no file, an unreadable one, one without the penalty column, or
\* up to MaxAvoidRows rows, among them a row with an empty avoid_mechanic_id
\* cell and a row naming a mechanic outside the pool
avoid_row(m1, m2, pen) ==
    [c \in AvoidCols |->
       IF c = <<"mechanic_id">> THEN m1
       ELSE IF c = <<"avoid_mechanic_id">> THEN m2
       ELSE pen]

AvoidRows ==
    { avoid_row(Cell(1), Cell(2), Cell(50)), avoid_row(Cell(2), Cell(1), Cell(7)),
      avoid_row(Cell(2), Cell(3), Cell(0)), avoid_row(Cell(3), Cell(2), Cell(20)),
      avoid_row(Cell(1), Cell(1), Cell(50)), avoid_row(Cell(1), NaN, Cell(50)),
      avoid_row(Cell(1), Cell(NumMech + 1), Cell(50)) }

AvoidFiles ==
    { None,
      Some([readable |-> FALSE, columns |-> AvoidCols, rows |-> <<>>]),
      Some([readable |-> TRUE, columns |-> AvoidCols \ {<<"penalty">>},
            rows |-> <<[c \in AvoidCols \ {<<"penalty">>} |->
                          IF c = <<"mechanic_id">> THEN Cell(1) ELSE Cell(2)]>>]) }
    \cup
    { Some([readable |-> TRUE, columns |-> AvoidCols, rows |-> rs])
      : rs \in UNION {[1..n -> AvoidRows] : n \in 0..MaxAvoidRows} }

\* with an avoidance file, the other three workbooks are these
AvoidSkillFiles ==
    { f \in SkillFiles :
        \A i \in DOMAIN f.rows : f.rows[i][<<"aw139", "_af", "_inspec">>] = Cell(1) }
AvoidScheduleFiles ==
    { f \in ScheduleFiles :
        /\ Len(f.rows) = 2
        /\ f.rows[1] = schedule_row(<<1, 1, 1>>, <<Cell(1), Cell(1)>>) }

\* Scenario S2: three mechanics, the slot (1,1,1) with aw139 = 1 and
\* aw139_af_inspec = 1, costs 5, 5 and 100 to base 1.  Mechanic 1 is the
\* airframe inspector; in the first skills table the three hold aw139_af
\* only, in the second they hold aw139_r and aw139_av as well.
scenario_skills(ps) ==
    [ columns |-> SkillColumns,
      rows |-> [i \in DOMAIN ps |-> [c \in SkillColumns |-> skill_cell(i, ps[i], c)]] ]

S2SkillsAirframeOnly == scenario_skills(<< <<1, 0, 0, 1>>, <<1, 0, 0, 0>>, <<1, 0, 0, 0>> >>)
S2SkillsAllDisciplines == scenario_skills(<< <<1, 1, 1, 1>>, <<1, 1, 1, 0>>, <<1, 1, 1, 0>> >>)

S2Schedule ==
    [columns |-> ScheduleColumns, rows |-> <<schedule_row(<<1, 1, 1>>, <<Cell(1), Cell(1)>>)>>]

S2Cost ==
    [ columns |-> {<<"id">>, <<"A">>},
      rows |-> [i \in DOMAIN <<5, 5, 100>> |->
                  [c \in {<<"id">>, <<"A">>} |->
                     IF c = <<"id">> THEN Cell(i) ELSE Cell(<<5, 5, 100>>[i])]] ]

S2Inputs == {S2SkillsAirframeOnly, S2SkillsAllDisciplines} \X {S2Schedule} \X {S2Cost} \X {None}

\* a schedule over two periods and two shifts of base 1: the row (1,1,1)
\* with one aircraft and an inspector cell of -1, and the row (1,2,2) with two aircraft and an inspector
\* requirement of 2, for an inspector holding every discipline, a mechanic
\* holding aw139_af only and a mechanic holding every discipline
TwoPeriodSkills == scenario_skills(<< <<1, 1, 1, 1>>, <<1, 0, 0, 0>>, <<1, 1, 1, 0>> >>)

TwoPeriodSchedule ==
    [ columns |-> ScheduleColumns,
      rows |-> << schedule_row(<<1, 1, 1>>, <<Cell(1), Cell(-1)>>),
                  schedule_row(<<1, 2, 2>>, <<Cell(2), Cell(2)>>) >> ]

TwoPeriodInputs == {TwoPeriodSkills} \X {TwoPeriodSchedule} \X CostFiles \X {None}

Inputs ==
    (SkillFiles \X ScheduleFiles \X CostFiles \X {None})
    \cup (AvoidSkillFiles \X AvoidScheduleFiles \X CostFiles \X AvoidFiles)
    \cup S2Inputs
    \cup TwoPeriodInputs

\* ------------------------------------------------- solve, extract_solution

\* time_limit_seconds as passed to solve
TimeLimits == {None, Some(0), Some(60)}

\* mutant: the limit is set from the argument at every call (None clears
\* it, 0 sets a limit of 0 ms)
set_time_limit_always(model, tl) ==
    [model EXCEPT !.time_limit = IF tl = <<>> THEN <<>> ELSE <<tl[1] * 1000>>]

\* if time_limit_seconds: self.solver.SetTimeLimit(time_limit_seconds * 1000)
with_time_limit(model, tl) ==
    IF tl # None /\ tl[1] # 0
    THEN [model EXCEPT !.time_limit = Some(tl[1] * 1000)]
    ELSE model

\* what self.solver.Solve() can answer: the proven optimum or proven
\* infeasibility, and, when a time limit is in force, also any incumbent
\* (FEASIBLE) or nothing at all (NOT_SOLVED)
solve_outcomes(model) ==
    LET F == feasible_points(model)
    IN (IF F = {}
        THEN {[status |-> "INFEASIBLE", values |-> no_solution(model)]}
        ELSE {[status |-> "OPTIMAL", values |-> v] : v \in optimal_points(model, F)})
       \cup
       (IF model.time_limit # None
        THEN {[status |-> "FEASIBLE", values |-> v] : v \in F}
               \cup {[status |-> "NOT_SOLVED", values |-> no_solution(model)]}
        ELSE {})

\* solution_value() > 0.5
chosen(v) == 2 * v > 1

\* k1 before k2 in the nested loops over the (sorted) id lists
loop_before(k1, k2) ==
    \E i \in DOMAIN k1 : k1[i] < k2[i] /\ \A j \in 1..(i - 1) : k1[j] = k2[j]

RECURSIVE in_loop_order(_)
in_loop_order(K) ==
    IF K = {} THEN <<>>
    ELSE LET k == CHOOSE a \in K : \A b \in K \ {a} : loop_before(a, b)
         IN <<k>> \o in_loop_order(K \ {k})

\* mutant: the comparison with 0.5 is inverted
extract_assignments_inverted(xs, vals, cost_dict) ==
    LET keys == in_loop_order({k \in DOMAIN xs : 2 * vals[xs[k]] <= 1})
    IN [i \in DOMAIN keys |->
          [ mechanic_id |-> keys[i][1], base_id |-> keys[i][2], group |-> keys[i][3],
            shift |-> keys[i][4],
            shift_name |-> IF keys[i][4] = 1 THEN "Day" ELSE "Night",
            cost |-> IF <<keys[i][1], keys[i][2]>> \in DOMAIN cost_dict
                     THEN cost_dict[<<keys[i][1], keys[i][2]>>] ELSE 0 ]]

RECURSIVE sum_costs(_)
sum_costs(as) == IF as = <<>> THEN 0 ELSE as[1].cost + sum_costs(Tail(as))

\* the assignments list extract_solution builds, in loop order
extract_assignments(xs, vals, cost_dict) ==
    LET keys == in_loop_order({k \in DOMAIN xs : chosen(vals[xs[k]])})
    IN [i \in DOMAIN keys |->
          [ mechanic_id |-> keys[i][1], base_id |-> keys[i][2], group |-> keys[i][3],
            shift |-> keys[i][4],
            shift_name |-> IF keys[i][4] = 1 THEN "Day" ELSE "Night",
            cost |-> get0(cost_dict, <<keys[i][1], keys[i][2]>>) ]]

RECURSIVE sum_penalties(_, _)
sum_penalties(K, dict) ==
    IF K = {} THEN 0
    ELSE LET k == CHOOSE kk \in K : TRUE
         IN dict[<<k[1], k[2]>>] + sum_penalties(K \ {k}, dict)

\* mutant: the penalty of every y variable is counted, whatever its value
avoidance_penalty_every_variable(d, ys, vals) ==
    IF DOMAIN d.avoidance_dict # {} /\ DOMAIN ys # {}
    THEN sum_penalties({k \in DOMAIN ys : k[1] < k[2]}, d.avoidance_dict)
    ELSE 0

\* main's total_avoidance_penalty: the penalty of every y variable above 0.5
avoidance_penalty(d, ys, vals) ==
    IF DOMAIN d.avoidance_dict # {} /\ DOMAIN ys # {}
    THEN sum_penalties({k \in {<<p[1], p[2], t[1], t[2], t[3]>> :
                                  p \in unique_pairs(d), t \in slots_of(d)} :
                          k \in DOMAIN ys /\ chosen(vals[ys[k]])},
                       d.avoidance_dict)
    ELSE 0

\* --------------------------------------------------------------- actions

\* Every action is one call; called names the operation and raised the
\* exception it left with ("none" when it returned).

\* solve: if self.solver is None: raise ValueError(...)
SolveError == "ValueError: Model must be created before solving"
\* extract_solution: if self.x is None: raise ValueError(...)
ExtractError == "ValueError: Model must be created before extracting solution"

\* the fields of a fresh RosterOptimizer and an application that has not
\* loaded anything yet
RosterInit ==
    /\ pc = "start"
    /\ data = None
    /\ load_warned = FALSE
    /\ solver_name = "SCIP"
    /\ solver = None
    /\ x = None
    /\ mechanic_skills = None
    /\ mechanic_inspector_skills = None
    /\ inspector_req_columns = None
    /\ avoidance_vars = None
    /\ status = None
    /\ values = None
    /\ assignments = <<>>
    /\ total_cost = 0
    /\ total_avoidance_penalty = 0
    /\ objective_value = 0
    /\ raised = "none"
    /\ called = "none"
    /\ created_solvers = <<>>

\* the three required uploads of the application
RequiredFiles == {"mechanic_skills_file", "base_schedule_file", "cost_matrix_file"}

\* no workbook rendered, no Config built, get_position not called, the
\* required workbooks at hand
AsideInit ==
    /\ uploaded = RequiredFiles
    /\ time_limit_seconds = None
    /\ positions = <<>>
    /\ environ = [SOLVER |-> None, LOG_LEVEL |-> None]
    /\ config = None
    /\ position_args = None
    /\ position = None

Init == RosterInit /\ AsideInit

\* data = data_loader.load_data(...)
LoadData ==
    /\ pc = "start"
    /\ \E in \in Inputs :
         /\ data' = Some(load_data(in[1], in[2], in[3], in[4]))
         /\ load_warned' = load_avoidance(in[4]).failed
    /\ pc' = "loaded"
    /\ called' = "load_data"
    /\ raised' = "none"
    /\ UNCHANGED <<solver_name, solver, x, mechanic_skills, mechanic_inspector_skills,
                   inspector_req_columns, avoidance_vars, status, values, assignments,
                   total_cost, total_avoidance_penalty, objective_value, created_solvers>>
    /\ UNCHANGED <<render_vars, config_vars, position_vars, app_vars, call_vars>>

\* what pywraplp.Solver.CreateSolver gives for the configured name and for
\* "CBC": a solver (TRUE) or None (FALSE)
Backends == BOOLEAN \X BOOLEAN

\* mutant: the fallback does not record its name
fallback_name_kept(name, backends) == name

\* self.solver_name after the "Create solver" block
fallback_name(name, backends) == IF backends[1] THEN name ELSE "CBC"

\* the results of the CreateSolver calls the block makes, in order
solvers_tried(backends) == IF backends[1] THEN <<TRUE>> ELSE <<FALSE, backends[2]>>

\* neither backend exists: the first use of the None solver raises
\* AttributeError (solver.IntVar in the first pass of the loops, and
\* solver.Objective() at the latest)
no_backend_raises(d, backends) == ~backends[1] /\ ~backends[2]

\* mutant: self.x is assigned as soon as the variables exist, before the
\* linearization constraints are added
CreateModelPublishingEarly ==
    /\ pc = "loaded"
    /\ called' = "create_model"
    /\ \E backends \in Backends :
         /\ solver_name' = (IF backends[1] THEN solver_name ELSE "CBC")
         /\ created_solvers' = (IF backends[1] THEN <<TRUE>> ELSE <<FALSE, backends[2]>>)
         /\ IF ~backends[1] /\ ~backends[2]
            THEN /\ raised' = "AttributeError"
                 /\ pc' = "failed"
                 /\ UNCHANGED <<solver, x, mechanic_skills, mechanic_inspector_skills,
                                inspector_req_columns, avoidance_vars>>
            ELSE IF linearization_raises(data[1])
            THEN /\ raised' = "KeyError"
                 /\ pc' = "failed"
                 /\ x' = <<x_of(data[1])>>
                 /\ UNCHANGED <<solver, mechanic_skills, mechanic_inspector_skills,
                                inspector_req_columns, avoidance_vars>>
            ELSE LET r == create_model(data[1])
                 IN /\ solver' = <<r.solver>>
                    /\ x' = <<r.x>>
                    /\ mechanic_skills' = <<r.mechanic_skills>>
                    /\ mechanic_inspector_skills' = <<r.mechanic_inspector_skills>>
                    /\ inspector_req_columns' = <<r.inspector_req_columns>>
                    /\ avoidance_vars' = <<r.avoidance_vars>>
                    /\ pc' = "created"
                    /\ raised' = "none"
    /\ UNCHANGED <<data, load_warned, status, values, assignments,
                   total_cost, total_avoidance_penalty, objective_value>>
    /\ UNCHANGED <<render_vars, config_vars, position_vars, app_vars, call_vars>>

\* optimizer.create_model(data)
CreateModel ==
    /\ pc = "loaded"
    /\ called' = "create_model"
    /\ \E backends \in Backends :
         /\ solver_name' = fallback_name(solver_name, backends)
         /\ created_solvers' = solvers_tried(backends)
         /\ IF no_backend_raises(data[1], backends)
            THEN /\ raised' = "AttributeError"
                 /\ pc' = "failed"
                 /\ UNCHANGED <<solver, x, mechanic_skills, mechanic_inspector_skills,
                                inspector_req_columns, avoidance_vars>>
            ELSE IF linearization_raises(data[1])
            THEN /\ raised' = "KeyError"
                 /\ pc' = "failed"
                 /\ UNCHANGED <<solver, x, mechanic_skills, mechanic_inspector_skills,
                                inspector_req_columns, avoidance_vars>>
            ELSE LET r == create_model(data[1])
                 IN /\ solver' = Some(r.solver)
                    /\ x' = Some(r.x)
                    /\ mechanic_skills' = Some(r.mechanic_skills)
                    /\ mechanic_inspector_skills' = Some(r.mechanic_inspector_skills)
                    /\ inspector_req_columns' = Some(r.inspector_req_columns)
                    /\ avoidance_vars' = Some(r.avoidance_vars)
                    /\ pc' = "created"
                    /\ raised' = "none"
    /\ UNCHANGED <<data, load_warned, status, values, assignments,
                   total_cost, total_avoidance_penalty, objective_value>>
    /\ UNCHANGED <<render_vars, config_vars, position_vars, app_vars, call_vars>>

\* mutant: the test of self.solver is missing
solve_guard_missing(s) == FALSE

\* if self.solver is None
solve_guard(s) == s = None

\* status, solve_time = optimizer.solve(time_limit_seconds), on an optimizer
\* without a model (a fresh one, or one whose create_model failed) or on one
\* whose model was just created
Solve ==
    /\ pc \in {"start", "failed", "created"}
    /\ called' = "solve"
    /\ IF solve_guard(solver)
       THEN /\ raised' = SolveError
            /\ UNCHANGED <<pc, solver, status, values>>
       ELSE IF solver = None
       THEN \* self.solver.Solve() on None
            /\ raised' = "AttributeError"
            /\ UNCHANGED <<pc, solver, status, values>>
       ELSE /\ \E tl \in TimeLimits :
                 LET model == with_time_limit(solver[1], tl)
                 IN /\ solver' = Some(model)
                    /\ \E o \in solve_outcomes(model) :
                         /\ status' = Some(o.status)
                         /\ values' = Some(o.values)
            /\ pc' = "solved"
            /\ raised' = "none"
    /\ UNCHANGED <<data, load_warned, solver_name, x, mechanic_skills,
                   mechanic_inspector_skills, inspector_req_columns, avoidance_vars,
                   assignments, total_cost, total_avoidance_penalty, objective_value,
                   created_solvers>>
    /\ UNCHANGED <<render_vars, config_vars, position_vars, app_vars, call_vars>>

\* if self.x is None
extract_guard(xs) == xs = None

\* optimizer.extract_solution(mechanics, bases, periods, shifts, cost_dict),
\* on an optimizer without a model (a fresh one, or one whose create_model
\* failed) or after a solve, whatever its status (main calls it when the
\* status is OPTIMAL or FEASIBLE)
ExtractSolution ==
    /\ pc \in {"start", "failed", "solved"}
    /\ called' = "extract_solution"
    /\ IF extract_guard(x)
       THEN /\ raised' = ExtractError
            /\ UNCHANGED <<pc, assignments, total_cost>>
       ELSE IF x = None
       THEN \* self.x[(m, b, g, s)] on None
            /\ raised' = "TypeError"
            /\ UNCHANGED <<pc, assignments, total_cost>>
       ELSE /\ assignments' = extract_assignments(x[1], values[1], data[1].cost_dict)
            /\ total_cost' = sum_costs(assignments')
            /\ pc' = "extracted"
            /\ raised' = "none"
    /\ UNCHANGED <<data, load_warned, solver_name, solver, x, mechanic_skills,
                   mechanic_inspector_skills, inspector_req_columns, avoidance_vars,
                   status, values, total_avoidance_penalty, objective_value,
                   created_solvers>>
    /\ UNCHANGED <<render_vars, config_vars, position_vars, app_vars, call_vars>>

\* main, after an extraction under OPTIMAL or FEASIBLE: the avoidance
\* penalty and solver.Objective().Value()
MainAccounting ==
    /\ pc = "extracted"
    /\ status[1] \in {"OPTIMAL", "FEASIBLE"}
    /\ total_avoidance_penalty' = avoidance_penalty(data[1], avoidance_vars[1], values[1])
    /\ objective_value' = objective_at(solver[1], values[1])
    /\ pc' = "done"
    /\ called' = "main"
    /\ UNCHANGED <<data, load_warned, solver_name, solver, x, mechanic_skills,
                   mechanic_inspector_skills, inspector_req_columns, avoidance_vars,
                   status, values, assignments, total_cost, raised, created_solvers>>
    /\ UNCHANGED <<render_vars, config_vars, position_vars, app_vars, call_vars>>

\* main: any other status shows an error and produces no roster
MainNoSolution ==
    /\ pc = "solved"
    /\ status[1] \notin {"OPTIMAL", "FEASIBLE"}
    /\ pc' = "done"
    /\ called' = "main"
    /\ UNCHANGED <<data, load_warned, solver_name, solver, x, mechanic_skills,
                   mechanic_inspector_skills, inspector_req_columns, avoidance_vars,
                   status, values, assignments, total_cost, total_avoidance_penalty,
                   objective_value, raised, created_solvers>>
    /\ UNCHANGED <<render_vars, config_vars, position_vars, app_vars, call_vars>>

Next ==
    \/ LoadData
    \/ CreateModel
    \/ Solve
    \/ ExtractSolution
    \/ MainAccounting
    \/ MainNoSolution

Spec == Init /\ [][Next]_vars

\* ------------------------------------------------------- ExcelGenerator

\* self.base_letter_map; the schedules here use the base ids 1..3
base_letter_map == [b \in 1..3 |-> <<"A", "B", "C">>[b]]

\* [k for k, v in self.base_letter_map.items() if v == base_letter][0]
base_of_letter(letter) == CHOOSE k \in DOMAIN base_letter_map : base_letter_map[k] = letter

\* some aircraft has mechanic_skills_dict.get(f"{aircraft}{skill_type}", 0) == 1
has_skill_type(mechanic_id, skill_type, mechanic_skills_dict) ==
    \E aircraft \in aircraft_types :
       get0(mechanic_skills_dict, col_name(aircraft, skill_type)) = 1

\* mutant: Avionic requires that both airframe and engine are missing
get_position_neither(mechanic_id, has_inspector_skill_for_shift, mechanic_skills_dict) ==
    LET has(k) == \E a \in {"aw139", "h175", "sk92"} :
                     <<a, k>> \in DOMAIN mechanic_skills_dict
                     /\ mechanic_skills_dict[<<a, k>>] = 1
    IN IF has_inspector_skill_for_shift THEN "Inspector"
       ELSE IF has("_av") /\ ~(has("_af") \/ has("_r")) THEN "Avionic"
       ELSE "Mechanic"

\* get_position
get_position(mechanic_id, has_inspector_skill_for_shift, mechanic_skills_dict) ==
    LET has_airframe == has_skill_type(mechanic_id, "_af", mechanic_skills_dict)
        has_engine == has_skill_type(mechanic_id, "_r", mechanic_skills_dict)
        has_avionics == has_skill_type(mechanic_id, "_av", mechanic_skills_dict)
    IN IF has_inspector_skill_for_shift THEN "Inspector"
       ELSE IF has_avionics /\ ~(has_airframe /\ has_engine) THEN "Avionic"
       ELSE IF has_airframe \/ has_engine \/ has_avionics THEN "Mechanic"
       ELSE "Mechanic"

\* assignments_by_base_shift[(base_letter, shift)]: the indices of the
\* assignments filed under the key
base_assignments(as, base_letter, shift_num) ==
    {i \in DOMAIN as : base_letter_map[as[i].base_id] = base_letter /\ as[i].shift = shift_num}

\* dict.get(mechanic_id, {})
get_dict(dict, key) == IF key \in DOMAIN dict THEN dict[key] ELSE EmptyDict

\* the is_inspector flag of the assignment with index i
is_inspector(as, i, df, skills, insp, insp_cols) ==
    LET base_letter == base_letter_map[as[i].base_id]
        shift_num == as[i].shift
        mechanic_id == as[i].mechanic_id
        other_mechanics(regular_skill_name) ==
            {as[j].mechanic_id : j \in
               {k \in base_assignments(as, base_letter, shift_num) :
                  /\ as[k].mechanic_id # mechanic_id
                  /\ get0(get_dict(skills, as[k].mechanic_id), regular_skill_name) = 1}}
    IN /\ insp_cols # {}
       /\ \E r \in DOMAIN df.rows :
            /\ df.rows[r][<<"base_id">>][1] = base_of_letter(base_letter)
            /\ df.rows[r][<<"shift">>][1] = shift_num
            /\ \E inspector_col \in insp_cols :
                 /\ inspector_col \in df.columns
                 /\ notna(df.rows[r][inspector_col])
                 /\ gt0(df.rows[r][inspector_col])
                 /\ get0(get_dict(insp, mechanic_id), inspector_col) = 1
                 /\ other_mechanics(replace_inspec(inspector_col)) # {}

\* the rows of mechanics written to the sheet, in sheet order: by key
\* (base letter, shift), inside a key by mechanic_id (stable)
generate_output(as, df, skills, insp, insp_cols) ==
    LET order == in_loop_order({<<as[i].base_id, as[i].shift, as[i].mechanic_id, i>> :
                                  i \in DOMAIN as})
    IN [n \in DOMAIN order |->
          LET i == order[n][4]
              m_skills == get_dict(skills, as[i].mechanic_id)
          IN [ base |-> base_letter_map[as[i].base_id],
               mechanic_id |-> as[i].mechanic_id,
               group |-> as[i].group,
               shift |-> as[i].shift,
               airframe |-> has_skill_type(as[i].mechanic_id, "_af", m_skills),
               engine |-> has_skill_type(as[i].mechanic_id, "_r", m_skills),
               avionics |-> has_skill_type(as[i].mechanic_id, "_av", m_skills),
               position |-> get_position(as[i].mechanic_id,
                                         is_inspector(as, i, df, skills, insp, insp_cols),
                                         m_skills) ]]

\* the workbooks of the rendered runs: every skills table, the full cost
\* table, no avoidance list, and a schedule of one row at (1,1,1) or of that
\* row and a second one in another period, shift or base
RenderDemands == { <<Cell(1), Cell(1)>>, <<Cell(1), NaN>> }
RenderSecondSlots == { <<1, 2, 1>>, <<1, 1, 2>>, <<2, 1, 1>> }

RenderSchedules ==
    { [columns |-> ScheduleColumns, rows |-> <<schedule_row(<<1, 1, 1>>, d1)>>]
      : d1 \in RenderDemands }
    \cup
    { [columns |-> ScheduleColumns,
       rows |-> <<schedule_row(<<1, 1, 1>>, t[1]), schedule_row(t[2], t[3])>>]
      : t \in RenderDemands \X RenderSecondSlots \X RenderDemands }

RenderInputs ==
    SkillFiles \X RenderSchedules \X {f \in CostFiles : <<"B">> \in f.columns} \X {None}

\* main up to the Excel generation: the data loaded, the model created,
\* solve() without time limit answered OPTIMAL, the solution extracted and
\* accounted
RenderInit ==
    /\ \E in \in RenderInputs :
         LET d == load_data(in[1], in[2], in[3], in[4])
             r == create_model(d)
         IN \E o \in solve_outcomes(r.solver) :
              /\ o.status = "OPTIMAL"
              /\ data = Some(d)
              /\ solver = Some(r.solver)
              /\ x = Some(r.x)
              /\ mechanic_skills = Some(r.mechanic_skills)
              /\ mechanic_inspector_skills = Some(r.mechanic_inspector_skills)
              /\ inspector_req_columns = Some(r.inspector_req_columns)
              /\ avoidance_vars = Some(r.avoidance_vars)
              /\ status = Some(o.status)
              /\ values = Some(o.values)
              /\ assignments = extract_assignments(r.x, o.values, d.cost_dict)
              /\ total_cost = sum_costs(extract_assignments(r.x, o.values, d.cost_dict))
              /\ total_avoidance_penalty = avoidance_penalty(d, r.avoidance_vars, o.values)
              /\ objective_value = objective_at(r.solver, o.values)
    /\ pc = "done"
    /\ load_warned = FALSE
    /\ solver_name = "SCIP"
    /\ raised = "none"
    /\ called = "main"
    /\ created_solvers = <<TRUE>>
    /\ AsideInit

\* wb = excel_generator.generate_output(assignments, data, mechanic_skills,
\*          mechanic_inspector_skills, inspector_req_columns, base_schedule_df)
GenerateOutput ==
    /\ pc = "done"
    /\ status # None
    /\ status[1] \in {"OPTIMAL", "FEASIBLE"}
    /\ positions' = generate_output(assignments, data[1].base_schedule_df,
                                    mechanic_skills[1], mechanic_inspector_skills[1],
                                    inspector_req_columns[1])
    /\ pc' = "rendered"
    /\ called' = "generate_output"
    /\ UNCHANGED <<data, load_warned, solver_name, solver, x, mechanic_skills,
                   mechanic_inspector_skills, inspector_req_columns, avoidance_vars,
                   status, values, assignments, total_cost, total_avoidance_penalty,
                   objective_value, raised, created_solvers>>
    /\ UNCHANGED <<config_vars, position_vars, app_vars, call_vars>>

RenderNext == GenerateOutput

RenderSpec == RenderInit /\ [][RenderNext]_vars

\* the skills dictionaries handed to get_position: every 0/1 dictionary
\* over the nine regular columns, over the three columns of one aircraft,
\* and the empty dictionary of mechanic_skills.get(mechanic_id, {})
RegularColumns == {col_name(a, k) : a \in aircraft_types, k \in skill_types}

SkillDicts ==
    [RegularColumns -> {0, 1}]
    \cup UNION {[{col_name(a, k) : k \in skill_types} -> {0, 1}] : a \in aircraft_types}
    \cup {EmptyDict}

PositionInit ==
    /\ RosterInit
    /\ positions = <<>>
    /\ environ = [SOLVER |-> None, LOG_LEVEL |-> None]
    /\ config = None
    /\ uploaded = RequiredFiles
    /\ time_limit_seconds = None
    /\ position_args \in
         {Some([mechanic_id |-> 1, has_inspector_skill_for_shift |-> f,
                mechanic_skills_dict |-> sd]) : f \in BOOLEAN, sd \in SkillDicts}
    /\ position = None

\* position = get_position(mechanic_id, is_inspector, m_skills)
GetPosition ==
    /\ position = None
    /\ position' = Some(get_position(position_args[1].mechanic_id,
                                     position_args[1].has_inspector_skill_for_shift,
                                     position_args[1].mechanic_skills_dict))
    /\ UNCHANGED <<position_args, roster_vars, render_vars, config_vars, app_vars, call_vars>>

PositionNext == GetPosition

PositionSpec == PositionInit /\ [][PositionNext]_vars

\* ---------------------------------------------------------------- Config

DEFAULT_SOLVER == "SCIP"
DEFAULT_LOG_LEVEL == "INFO"

\* os.getenv(name, default)
getenv(env, name, default) == IF env[name] = None THEN default ELSE env[name][1]

valid_solvers == {"SCIP", "CBC", "GLOP"}
valid_log_levels == {"DEBUG", "INFO", "WARNING", "ERROR", "CRITICAL"}

\* _validate: if self.solver not in valid_solvers: self.solver = DEFAULT_SOLVER
validate_solver(s) == IF s \notin valid_solvers THEN DEFAULT_SOLVER ELSE s

\* mutant: an invalid log level is replaced by the default of the solver
validate_log_level_solver_default(l) ==
    IF l \notin {"DEBUG", "INFO", "WARNING", "ERROR", "CRITICAL"} THEN "SCIP" ELSE l

\* _validate: if self.log_level not in valid_log_levels: ... = DEFAULT_LOG_LEVEL
validate_log_level(l) == IF l \notin valid_log_levels THEN DEFAULT_LOG_LEVEL ELSE l

\* the fields of Config() under the environment env
Config(env) ==
    [ solver |-> validate_solver(getenv(env, "SOLVER", DEFAULT_SOLVER)),
      log_level |-> validate_log_level(getenv(env, "LOG_LEVEL", DEFAULT_LOG_LEVEL)) ]

\* the environments: each variable unset, valid, or set to something else
\* (wrong case, unknown, empty, a valid value of the other variable)
SolverSettings ==
    {None} \cup {Some(v) : v \in {"SCIP", "CBC", "GLOP", "scip", "GUROBI", "", "INFO"}}
LogLevelSettings ==
    {None} \cup {Some(v) : v \in {"DEBUG", "INFO", "WARNING", "ERROR", "CRITICAL",
                                  "debug", "TRACE", "", "CBC"}}
Environs == [SOLVER : SolverSettings, LOG_LEVEL : LogLevelSettings]

ConfigInit ==
    /\ RosterInit
    /\ positions = <<>>
    /\ position_args = None
    /\ position = None
    /\ environ \in Environs
    /\ config = None
    /\ uploaded = RequiredFiles
    /\ time_limit_seconds = None

\* config = Config()
ConfigConstruct ==
    /\ config = None
    /\ config' = Some(Config(environ))
    /\ UNCHANGED <<environ, roster_vars, render_vars, position_vars, app_vars, call_vars>>

ConfigNext == ConfigConstruct

ConfigSpec == ConfigInit /\ [][ConfigNext]_vars

\* ------------------------------------------------- load_data, any row order

\* at most this many rows in a skills table whose rows come in any order
MaxListedRows == 3

\* skills tables whose rows carry the ids in any order, repeats included
ListedSkillFiles ==
    { [ columns |-> SkillColumns,
        rows |-> [i \in DOMAIN ids |->
                    [c \in SkillColumns |-> skill_cell(ids[i], <<1, 1, 1, 1>>, c)]] ]
      : ids \in UNION {[1..n -> 1..NumMech] : n \in 1..MaxListedRows} }

\* schedules of one or two rows over the slots {1,2} x {1,2} x {1,2}, in any
\* order, repeats included
ListedSlots == (1..2) \X (1..2) \X (1..2)

ListedScheduleFiles ==
    { [ columns |-> ScheduleColumns,
        rows |-> [i \in DOMAIN ts |-> schedule_row(ts[i], <<Cell(1), NaN>>)] ]
      : ts \in UNION {[1..n -> ListedSlots] : n \in 1..2} }

ListedInputs ==
    ListedSkillFiles \X ListedScheduleFiles \X {f \in CostFiles : <<"B">> \in f.columns}
      \X {None}

\* data = data_loader.load_data(...) on workbooks whose rows come in any order
LoadListed ==
    /\ pc = "start"
    /\ \E in \in ListedInputs :
         /\ data' = Some(load_data(in[1], in[2], in[3], in[4]))
         /\ load_warned' = load_avoidance(in[4]).failed
    /\ pc' = "loaded"
    /\ called' = "load_data"
    /\ raised' = "none"
    /\ UNCHANGED <<solver_name, solver, x, mechanic_skills, mechanic_inspector_skills,
                   inspector_req_columns, avoidance_vars, status, values, assignments,
                   total_cost, total_avoidance_penalty, objective_value, created_solvers>>
    /\ UNCHANGED <<render_vars, config_vars, position_vars, app_vars, call_vars>>

LoaderNext == LoadListed

LoaderSpec == Init /\ [][LoaderNext]_vars

\* ------------------------------------------------- the application's main

\* the run button is pressed with any of the required workbooks uploaded
AppInit ==
    /\ RosterInit
    /\ uploaded \in SUBSET RequiredFiles
    /\ time_limit_seconds = None
    /\ positions = <<>>
    /\ environ = [SOLVER |-> None, LOG_LEVEL |-> None]
    /\ config = None
    /\ position_args = None
    /\ position = None

\* if not all([mechanic_skills_file, base_schedule_file, cost_matrix_file]):
\* st.error(...) and nothing else
AppMissingFiles ==
    /\ pc = "start"
    /\ uploaded # RequiredFiles
    /\ pc' = "done"
    /\ called' = "main"
    /\ UNCHANGED <<data, load_warned, solver_name, solver, x, mechanic_skills,
                   mechanic_inspector_skills, inspector_req_columns, avoidance_vars,
                   status, values, assignments, total_cost, total_avoidance_penalty,
                   objective_value, raised, created_solvers>>
    /\ UNCHANGED <<render_vars, config_vars, position_vars, app_vars, call_vars>>

\* else: data = data_loader.load_data(...)
AppLoadData == uploaded = RequiredFiles /\ LoadData

\* optimizer = RosterOptimizer(...); optimizer.create_model(data); an
\* exception ends the run in the except clause
AppCreateModel == pc = "loaded" /\ CreateModel

\* status, solve_time = optimizer.solve(): no time limit is passed
AppSolve == pc = "created" /\ Solve /\ solver' = solver

\* mutant: the status is not tested before the extraction
AppExtractAnyStatus == pc = "solved" /\ ExtractSolution

\* if status in (OPTIMAL, FEASIBLE): optimizer.extract_solution(...)
AppExtractSolution ==
    pc = "solved" /\ status[1] \in {"OPTIMAL", "FEASIBLE"} /\ ExtractSolution

AppNext ==
    \/ AppMissingFiles
    \/ AppLoadData
    \/ AppCreateModel
    \/ AppSolve
    \/ AppExtractSolution
    \/ MainAccounting
    \/ MainNoSolution
    \/ GenerateOutput

AppSpec == AppInit /\ [][AppNext]_vars

\* --------------------------------------- create_model on a used optimizer

\* an avoidance workbook of one row
one_pair_file(m1, m2, pen) ==
    Some([readable |-> TRUE, columns |-> AvoidCols,
          rows |-> <<avoid_row(Cell(m1), Cell(m2), Cell(pen))>>])

\* the data handed to the create_model calls of one optimizer: scenario S2
\* with its three mechanics, without avoidance list, with the pair (1,2) at
\* penalty 50 and at penalty 0, with a pair naming a mechanic outside the
\* pool, and over two shifts
RecreateInputs ==
    ( {S2SkillsAllDisciplines} \X {S2Schedule} \X {S2Cost}
        \X {None, one_pair_file(1, 2, 50), one_pair_file(1, 2, 0),
            one_pair_file(1, Len(S2SkillsAllDisciplines.rows) + 1, 50)} )
    \cup
    ( {S2SkillsAllDisciplines}
        \X {[columns |-> ScheduleColumns,
              rows |-> << schedule_row(<<1, 1, 1>>, <<Cell(1), Cell(1)>>),
                          schedule_row(<<1, 1, 2>>, <<Cell(1), NaN>>) >>]}
        \X {S2Cost} \X {None} )

\* data = data_loader.load_data(...), before the first create_model or
\* between two create_model calls on the same optimizer
Reload ==
    /\ pc \in {"start", "created", "failed", "solved"}
    /\ \E in \in RecreateInputs :
         /\ data' = Some(load_data(in[1], in[2], in[3], in[4]))
         /\ load_warned' = load_avoidance(in[4]).failed
    /\ pc' = "loaded"
    /\ called' = "load_data"
    /\ raised' = "none"
    /\ UNCHANGED <<solver_name, solver, x, mechanic_skills, mechanic_inspector_skills,
                   inspector_req_columns, avoidance_vars, status, values, assignments,
                   total_cost, total_avoidance_penalty, objective_value, created_solvers>>
    /\ UNCHANGED <<render_vars, config_vars, position_vars, app_vars, call_vars>>

\* the time limits passed to the solve calls of a sequence
CallTimeLimits == {None, Some(0), Some(30), Some(60)}

\* optimizer.solve(time_limit_seconds), any number of times, on an optimizer
\* with or without a model; the argument of the call is kept
SolveCall ==
    /\ pc \in {"failed", "created", "solved"}
    /\ called' = "solve"
    /\ \E tl \in CallTimeLimits :
         /\ time_limit_seconds' = tl
         /\ IF solve_guard(solver)
            THEN /\ raised' = SolveError
                 /\ UNCHANGED <<pc, solver, status, values>>
            ELSE IF solver = None
            THEN /\ raised' = "AttributeError"
                 /\ UNCHANGED <<pc, solver, status, values>>
            ELSE LET model == with_time_limit(solver[1], tl)
                 IN /\ solver' = Some(model)
                    /\ \E o \in solve_outcomes(model) :
                         /\ status' = Some(o.status)
                         /\ values' = Some(o.values)
                    /\ pc' = "solved"
                    /\ raised' = "none"
    /\ UNCHANGED <<data, load_warned, solver_name, x, mechanic_skills,
                   mechanic_inspector_skills, inspector_req_columns, avoidance_vars,
                   assignments, total_cost, total_avoidance_penalty, objective_value,
                   created_solvers>>
    /\ UNCHANGED <<render_vars, config_vars, position_vars, app_vars>>

RecreateNext ==
    \/ Reload
    \/ CreateModel
    \/ SolveCall

RecreateSpec == Init /\ [][RecreateNext]_vars

\* ================================================================ claims

\* the vocabulary of the claims, read from the loaded tables themselves
HasSolution == status # None /\ status[1] \in {"OPTIMAL", "FEASIBLE"}

Pool == Range(data[1].mechanics)
Slots == slots_of(data[1])

\* the (m, b, g, s) whose x variable has value 1 in the solver
Assigned == {k \in DOMAIN x[1] : values[1][x[1][k]] = 1}

\* the mechanics an assignment set A places at slot t
At(A, t) == {m \in Pool : <<m, t[1], t[2], t[3]>> \in A}

\* the cell of mechanic m in column c of the skills table is 1
Holds(m, c) ==
    LET df == data[1].mechanic_skills_df
    IN c \in df.columns /\ \E i \in DOMAIN df.rows :
           /\ df.rows[i][<<"mechanic_id">>] = Cell(m)
           /\ df.rows[i][c] = Cell(1)
           /\ \A j \in DOMAIN df.rows : df.rows[j][<<"mechanic_id">>] = Cell(m) => j <= i

ScheduleRows == data[1].base_schedule_df.rows
ScheduleCols == data[1].base_schedule_df.columns

\* column c of the schedule has a non-null value > 0 in some row of slot t
ActiveAt(t, c) ==
    /\ c \in ScheduleCols
    /\ \E i \in DOMAIN ScheduleRows :
         /\ row_slot(ScheduleRows[i]) = t
         /\ ScheduleRows[i][c] # NaN
         /\ ScheduleRows[i][c][1] > 0

InspectorColumns == {c \in ScheduleCols : c[Len(c)] = "_inspec"}
RegularOf(c) == SubSeq(c, 1, Len(c) - 1)

\* the four conditions on an assignment set A (a set of (m, b, g, s))
SingleAssignmentIn(A) ==
    \A m \in Pool : Cardinality({k \in A : k[1] = m}) <= 1

SkillCoverageIn(A) ==
    \A t \in Slots : \A a \in {"aw139", "h175", "sk92"} :
      ActiveAt(t, <<a>>) =>
        \A d \in {"_af", "_r", "_av"} : \E m \in At(A, t) : Holds(m, <<a, d>>)

InspectorCoverageIn(A) ==
    \A t \in Slots : \A c \in InspectorColumns :
      ActiveAt(t, c) => \E m \in At(A, t) : Holds(m, c)

NoSelfInspectionIn(A) ==
    \A t \in Slots : \A c \in InspectorColumns :
      ActiveAt(t, c) =>
        \A M \in At(A, t) :
          (Holds(M, c) /\ \E o \in Pool \ {M} : Holds(o, RegularOf(c)))
            => \E o \in At(A, t) \ {M} : Holds(o, RegularOf(c))

\* C1: in every solution of the model each mechanic of the pool is
\* assigned to at most one (base, period, shift).
C1_SingleAssignment == HasSolution => SingleAssignmentIn(Assigned)

\* a solution with a mechanic in each of two slots, reached as an
\* incumbent (FEASIBLE)
C1_Witness ==
    /\ HasSolution
    /\ status[1] = "FEASIBLE"
    /\ \E t1, t2 \in Slots : t1 # t2 /\ At(Assigned, t1) # {} /\ At(Assigned, t2) # {}

\* C2: for every schedule row and every aircraft with a positive count in
\* it, each of the three disciplines has an assigned holder at the row's slot.
C2_SkillCoverage == HasSolution => SkillCoverageIn(Assigned)

\* a solution in which no single mechanic at the slot holds all three
\* disciplines: they are covered by different mechanics
C2_Witness ==
    /\ HasSolution
    /\ \E t \in Slots :
         /\ ActiveAt(t, <<"aw139">>)
         /\ \A m \in At(Assigned, t) :
              \E d \in {"_af", "_r", "_av"} : ~Holds(m, <<"aw139", d>>)

\* C3: for every schedule row and every "_inspec" column with a non-null
\* positive value in it, a holder of that inspector skill is assigned to
\* the row's slot.
C3_InspectorCoverage == HasSolution => InspectorCoverageIn(Assigned)

\* a solution with an active inspector column at a slot where also a
\* mechanic without the inspector skill is placed
C3_Witness ==
    /\ HasSolution
    /\ \E t \in Slots : \E c \in InspectorColumns :
         /\ ActiveAt(t, c)
         /\ \E m \in At(Assigned, t) : ~Holds(m, c)

\* C4: at a slot with an active inspector column c, an assigned holder M
\* of c is accompanied by another assigned holder of the regular
\* counterpart of c whenever the pool has another such holder at all.
C4_NoSelfInspection == HasSolution => NoSelfInspectionIn(Assigned)

\* an inspector placed at an active slot with a partner, and another
\* holder of the regular skill left unassigned
C4_Witness ==
    /\ HasSolution
    /\ \E t \in Slots : \E c \in InspectorColumns :
         /\ ActiveAt(t, c)
         /\ \E M \in At(Assigned, t) :
              /\ Holds(M, c)
              /\ \E o \in At(Assigned, t) \ {M} : Holds(o, RegularOf(c))
              /\ \E o \in Pool \ {M} : Holds(o, RegularOf(c)) /\ \A k \in Assigned : k[1] # o

\* the inspector columns of the skills table
InspectorSkills ==
    {c \in data[1].mechanic_skills_df.columns : c[Len(c)] = "_inspec"}

\* C5 as stated (invariant 5, whatever the slot requires): an assigned
\* mechanic M holding an inspector skill has, at the same slot, another
\* assigned holder of the regular skill, if the pool has another holder.
C5_AnySlot ==
    HasSolution =>
      \A t \in Slots : \A M \in At(Assigned, t) : \A c \in InspectorSkills :
        (Holds(M, c) /\ \E o \in Pool \ {M} : Holds(o, RegularOf(c)))
          => \E o \in At(Assigned, t) \ {M} : Holds(o, RegularOf(c))

\* the records of the extracted list that share the slot of record a
Colleagues(a) ==
    {assignments[j].mechanic_id : j \in
       {i \in DOMAIN assignments :
          /\ assignments[i].base_id = a.base_id
          /\ assignments[i].group = a.group
          /\ assignments[i].shift = a.shift
          /\ assignments[i].mechanic_id # a.mechanic_id}}

\* C5 (amended): in the extracted assignments, a mechanic M holding an
\* inspector skill whose column has a non-null positive requirement at M's
\* slot shares the slot with another holder of the regular skill, if the
\* pool has another holder.
C5_RequiredSlot ==
    pc \in {"extracted", "done"} =>
      \A i \in DOMAIN assignments :
        LET a == assignments[i]
            M == a.mechanic_id
        IN \A c \in InspectorSkills :
             ( /\ Holds(M, c)
               /\ ActiveAt(<<a.base_id, a.group, a.shift>>, c)
               /\ \E o \in Pool \ {M} : Holds(o, RegularOf(c)) )
             => \E o \in Colleagues(a) : Holds(o, RegularOf(c))

\* extracted: an inspector with a partner at a slot that requires the
\* inspector, and an inspector alone at a slot that does not
C5_Witness ==
    /\ pc = "extracted"
    /\ \E i, j \in DOMAIN assignments : \E c \in InspectorSkills :
         /\ Holds(assignments[i].mechanic_id, c)
         /\ ActiveAt(<<assignments[i].base_id, assignments[i].group,
                       assignments[i].shift>>, c)
         /\ Colleagues(assignments[i]) # {}
         /\ Holds(assignments[j].mechanic_id, c)
         /\ ~ActiveAt(<<assignments[j].base_id, assignments[j].group,
                        assignments[j].shift>>, c)
         /\ Colleagues(assignments[j]) = {}
         /\ \E o \in Pool \ {assignments[j].mechanic_id} : Holds(o, RegularOf(c))

\* cost[(m, b)], 0 without an entry
CostOf(m, b) ==
    IF <<m, b>> \in DOMAIN data[1].cost_dict THEN data[1].cost_dict[<<m, b>>] ELSE 0

\* the unordered avoidance pairs, as <<smaller id, larger id>>
AvoidancePairs ==
    {p \in Pool \X Pool :
       /\ p[1] < p[2]
       /\ p \in DOMAIN data[1].avoidance_dict \/ <<p[2], p[1]>> \in DOMAIN data[1].avoidance_dict}

PenaltyOf(p) ==
    IF p \in DOMAIN data[1].avoidance_dict THEN data[1].avoidance_dict[p]
    ELSE data[1].avoidance_dict[<<p[2], p[1]>>]

\* the (pair, slot) at which assignment set A places both mechanics of a pair
CoAssigned(A) ==
    {ps \in AvoidancePairs \X Slots : {ps[1][1], ps[1][2]} \subseteq At(A, ps[2])}

RECURSIVE MovementCost(_)
\* the sum of cost[(m, b)] over the assignment set A
MovementCost(A) ==
    IF A = {} THEN 0
    ELSE LET k == CHOOSE kk \in A : TRUE
         IN CostOf(k[1], k[2]) + MovementCost(A \ {k})

RECURSIVE PenaltySum(_)
\* the sum of the penalties over a set of (pair, slot)
PenaltySum(PS) ==
    IF PS = {} THEN 0
    ELSE LET ps == CHOOSE pp \in PS : TRUE
         IN PenaltyOf(ps[1]) + PenaltySum(PS \ {ps})

\* movement cost plus incurred avoidance penalties of an assignment set
HandCost(A) == MovementCost(A) + PenaltySum(CoAssigned(A))

\* the hand-constructed assignment sets that meet the constraint families
HandFeasible ==
    {A \in SUBSET (Pool \X Range(data[1].bases) \X Range(data[1].periods)
                     \X Range(data[1].shifts)) :
       /\ SingleAssignmentIn(A)
       /\ SkillCoverageIn(A)
       /\ InspectorCoverageIn(A)
       /\ NoSelfInspectionIn(A)}

\* C6: when solve reports OPTIMAL, the objective value is the minimum of
\* movement cost plus incurred avoidance penalties over the feasible
\* assignment sets: no feasible set is cheaper and one attains it.
C6_Optimality ==
    (pc = "done" /\ status[1] = "OPTIMAL") =>
      /\ \A A \in HandFeasible : objective_value <= HandCost(A)
      /\ \E A \in HandFeasible : objective_value = HandCost(A)

\* C7: in every solution y[m1,m2,b,g,s] = 1 exactly when m1 and m2 are both
\* assigned to (b,g,s), and the reported avoidance penalty is the sum of the
\* penalties of the co-assigned avoidance pairs.
C7_AvoidanceAccounting ==
    /\ HasSolution =>
         \A k \in DOMAIN avoidance_vars[1] :
           (values[1][avoidance_vars[1][k]] = 1)
             <=> {k[1], k[2]} \subseteq At(Assigned, <<k[3], k[4], k[5]>>)
    /\ pc = "done" /\ HasSolution =>
         total_avoidance_penalty = PenaltySum(CoAssigned(Assigned))

\* C8: after load_data the avoidance map contains (m1,m2) iff it contains
\* (m2,m1), and both keys carry the same penalty.
C8_AvoidanceSymmetry ==
    data # None =>
      \A k \in DOMAIN data[1].avoidance_dict :
        /\ <<k[2], k[1]>> \in DOMAIN data[1].avoidance_dict
        /\ data[1].avoidance_dict[<<k[2], k[1]>>] = data[1].avoidance_dict[k]

\* the pair (1,2) loaded with penalty 50 and then again, reversed, with 7
C8_Witness ==
    /\ data # None
    /\ <<1, 2>> \in DOMAIN data[1].avoidance_dict
    /\ data[1].avoidance_dict[<<1, 2>>] = 7
    /\ Cardinality(DOMAIN data[1].avoidance_dict) >= 4

\* C9 as stated: a parse failure of the avoidance input, at whatever row,
\* leaves load_data with an empty avoidance map.
C9_FailureGivesEmpty ==
    (data # None /\ load_warned) => DOMAIN data[1].avoidance_dict = {}

\* C10: for each unordered avoidance pair of two different mechanics the
\* built model has exactly one y variable per (b,g,s), keyed smaller id
\* first; the reversed key has no variable.
C10_OneVariablePerPair ==
    solver # None =>
      \A p \in AvoidancePairs : \A t \in Slots :
        /\ <<p[1], p[2], t[1], t[2], t[3]>> \in DOMAIN avoidance_vars[1]
        /\ <<p[2], p[1], t[1], t[2], t[3]>> \notin DOMAIN avoidance_vars[1]
        /\ Cardinality({v \in solver[1].variables :
                          /\ v[1] = "y_avoid"
                          /\ {v[2], v[3]} = {p[1], p[2]}
                          /\ <<v[4], v[5], v[6]>> = t}) = 1

\* a model built from a map that holds two pairs in both orders
C10_Witness ==
    /\ solver # None
    /\ Cardinality(AvoidancePairs) = 2
    /\ Cardinality(Slots) = 2
    /\ Cardinality(DOMAIN avoidance_vars[1]) = 4

\* the keys (m1, m2) of the loaded avoidance map with m1 < m2
CanonicalPairs == {k \in DOMAIN data[1].avoidance_dict : k[1] < k[2]}

\* the linearization constraints of the built model at pair p and slot t
LinearizationAt(p, t) ==
    {c \in solver[1].constraints :
       /\ c.name[1] \in {"avoid_y_le_x1", "avoid_y_le_x2", "avoid_y_ge_sum"}
       /\ SubSeq(c.name, 2, 6) = <<p[1], p[2], t[1], t[2], t[3]>>}

\* C11 as stated: a pair (m1 < m2) whose penalty in the avoidance map is 0
\* has no y variable and no linearization constraint at any (b,g,s).
C11_NoVariableForZeroPenalty ==
    solver # None =>
      \A p \in CanonicalPairs : data[1].avoidance_dict[p] = 0 =>
        \A t \in Slots :
          /\ <<p[1], p[2], t[1], t[2], t[3]>> \notin DOMAIN avoidance_vars[1]
          /\ y_var(p[1], p[2], t[1], t[2], t[3]) \notin solver[1].variables
          /\ LinearizationAt(p, t) = {}

\* C11 (amended): every pair (m1 < m2) of the avoidance map, a pair of
\* penalty 0 included, has a y variable and its three linearization
\* constraints at every (b,g,s); the variable's objective coefficient is the
\* pair's penalty.
C11_VariableWhateverPenalty ==
    solver # None =>
      \A p \in CanonicalPairs : \A t \in Slots :
        LET k == <<p[1], p[2], t[1], t[2], t[3]>>
        IN /\ k \in DOMAIN avoidance_vars[1]
           /\ avoidance_vars[1][k] \in solver[1].variables
           /\ Cardinality(LinearizationAt(p, t)) = 3
           /\ solver[1].objective[avoidance_vars[1][k]] = data[1].avoidance_dict[p]

\* a model built from a map with a pair of penalty 0 and a pair of
\* positive penalty
C11_Witness ==
    /\ solver # None
    /\ \E p, q \in CanonicalPairs :
         /\ data[1].avoidance_dict[p] = 0
         /\ data[1].avoidance_dict[q] > 0
         /\ \A t \in Slots : <<p[1], p[2], t[1], t[2], t[3]>> \in DOMAIN avoidance_vars[1]

\* the tables of scenario S2 are the loaded ones, with the given skills
LoadedS2(skills) ==
    /\ data # None
    /\ data[1].mechanic_skills_df = skills
    /\ data[1].base_schedule_df = S2Schedule
    /\ data[1].cost_dict = cost_dict_of(S2Cost)
    /\ DOMAIN data[1].avoidance_dict = {}

\* the mechanics an assignment set places somewhere
MechanicsOf(A) == {k[1] : k \in A}

\* C12 as stated: in scenario S2, where the three mechanics hold aw139_af
\* only, solve gives a solution that assigns m1 and m2, not m3, at cost 10.
C12_ScenarioS2 ==
    (LoadedS2(S2SkillsAirframeOnly) /\ status # None) =>
      /\ HasSolution
      /\ MechanicsOf(Assigned) = {1, 2}
      /\ MovementCost(Assigned) = 10

\* C12 (amended): in scenario S2 with the three mechanics holding aw139_r
\* and aw139_av as well, the model is feasible, a solve without time limit
\* reports OPTIMAL, and the optimal solution assigns m1 and m2, not m3, at
\* total cost 10.
C12_ScenarioS2AllDisciplines ==
    (LoadedS2(S2SkillsAllDisciplines) /\ status # None) =>
      /\ status[1] # "INFEASIBLE"
      /\ solver[1].time_limit = None => status[1] = "OPTIMAL"
      /\ status[1] = "OPTIMAL" =>
           /\ MechanicsOf(Assigned) = {1, 2}
           /\ MovementCost(Assigned) = 10
           /\ pc \in {"extracted", "done"} =>
                /\ total_cost = 10
                /\ {assignments[i].mechanic_id : i \in DOMAIN assignments} = {1, 2}

\* the optimum of the completed scenario, extracted
C12_Witness ==
    /\ LoadedS2(S2SkillsAllDisciplines)
    /\ pc = "extracted"
    /\ status[1] = "OPTIMAL"
    /\ Len(assignments) = 2
    /\ total_cost = 10

AirframeInspector == <<"aw139", "_af", "_inspec">>

\* scenario S3 at slot t: the slot needs the aw139 disciplines and the
\* aw139_af inspector, M holds aw139_af and aw139_af_inspec and nobody else
\* in the pool holds either
S3At(t, M) ==
    /\ ActiveAt(t, <<"aw139">>)
    /\ ActiveAt(t, AirframeInspector)
    /\ Holds(M, <<"aw139", "_af">>)
    /\ Holds(M, AirframeInspector)
    /\ \A o \in Pool \ {M} : ~Holds(o, <<"aw139", "_af">>) /\ ~Holds(o, AirframeInspector)

\* C13 as stated: in scenario S3 the model is infeasible: solve gives no
\* assignment set.
C13_SelfInspectionBlocked ==
    status # None =>
      \A t \in Slots : \A M \in Pool : S3At(t, M) => ~HasSolution

\* C13 (amended): in scenario S3 no self-inspection constraint is generated
\* for M, every solution places M at the slot with no other holder of
\* aw139_af beside it, and when the schedule has that slot only and the pool
\* holds aw139_r and aw139_av the model is feasible (solve is not INFEASIBLE).
C13_InspectorPlacedAlone ==
    solver # None =>
      \A t \in Slots : \A M \in Pool : S3At(t, M) =>
        /\ ~\E c \in solver[1].constraints :
              c.name[1] = "no_self_inspect" /\ c.name[Len(c.name)] = M
        /\ HasSolution =>
             /\ M \in At(Assigned, t)
             /\ \A o \in At(Assigned, t) \ {M} : ~Holds(o, <<"aw139", "_af">>)
        /\ ( /\ status # None
             /\ Len(ScheduleRows) = 1
             /\ \E m \in Pool : Holds(m, <<"aw139", "_r">>)
             /\ \E m \in Pool : Holds(m, <<"aw139", "_av">>) )
           => status[1] # "INFEASIBLE"

\* scenario S3 solved to optimality: M is the only mechanic at the slot
C13_Witness ==
    /\ HasSolution
    /\ status[1] = "OPTIMAL"
    /\ \E t \in Slots : \E M \in Pool : S3At(t, M) /\ At(Assigned, t) = {M}

\* create_model has never completed on the optimizer
NeverCreated == pc \in {"start", "loaded", "failed"}

\* C14: while create_model has never completed, every call of solve raises
\* the ValueError "Model must be created before solving" and every call of
\* extract_solution the ValueError "Model must be created before extracting
\* solution", in any order and any number of times, and solver and x stay
\* None.
C14_LifecycleGuard ==
    [][ (NeverCreated /\ called' \in {"solve", "extract_solution"}) =>
          /\ solver = None /\ x = None
          /\ raised' = IF called' = "solve" THEN SolveError ELSE ExtractError
          /\ solver' = None /\ x' = None
          /\ NeverCreated' ]_vars

\* extract_solution has just raised on an optimizer whose create_model
\* failed for want of a backend
C14_Witness ==
    /\ pc = "failed"
    /\ created_solvers = <<FALSE, FALSE>>
    /\ called = "extract_solution"
    /\ raised = ExtractError
    /\ solver = None
    /\ x = None

\* extract_solution has just returned
Extracted == called = "extract_solution" /\ raised = "none"

ExtractedSet ==
    {<<assignments[i].mechanic_id, assignments[i].base_id, assignments[i].group,
       assignments[i].shift>> : i \in DOMAIN assignments}

\* invariant 5 of the specification: an assigned holder of an inspector
\* skill shares the slot with another holder of the regular skill, provided
\* the pool has another holder
SelfInspectionInvariant(A) ==
    \A t \in Slots : \A M \in At(A, t) : \A c \in InspectorSkills :
      (Holds(M, c) /\ \E o \in Pool \ {M} : Holds(o, RegularOf(c)))
        => \E o \in At(A, t) \ {M} : Holds(o, RegularOf(c))

\* C16 as stated: extract_solution returns an assignment set only if it
\* meets invariants 2-5 (single assignment, skill coverage, inspector
\* coverage, self-inspection); otherwise it fails with an invariant error.
C16_ExtractorGate ==
    (Extracted /\ HasSolution) =>
      /\ SingleAssignmentIn(ExtractedSet)
      /\ SkillCoverageIn(ExtractedSet)
      /\ InspectorCoverageIn(ExtractedSet)
      /\ SelfInspectionInvariant(ExtractedSet)

\* C17: after Config() the solver is one of SCIP, CBC, GLOP and the log
\* level one of DEBUG, INFO, WARNING, ERROR, CRITICAL; a SOLVER value outside
\* the set becomes SCIP, a LOG_LEVEL value outside the set becomes INFO, a
\* valid value is kept, and each field depends on its own variable only.
C17_ConfigValidation ==
    config # None =>
      LET S == {"SCIP", "CBC", "GLOP"}
          L == {"DEBUG", "INFO", "WARNING", "ERROR", "CRITICAL"}
          es == environ.SOLVER
          el == environ.LOG_LEVEL
      IN /\ config[1].solver \in S
         /\ config[1].log_level \in L
         /\ (es # None /\ es[1] \notin S) => config[1].solver = "SCIP"
         /\ (es # None /\ es[1] \in S) => config[1].solver = es[1]
         /\ (el # None /\ el[1] \notin L) => config[1].log_level = "INFO"
         /\ (el # None /\ el[1] \in L) => config[1].log_level = el[1]

\* a Config built with an unknown solver and a valid, non-default log level
C17_Witness ==
    /\ config # None
    /\ environ.SOLVER = Some("GUROBI")
    /\ environ.LOG_LEVEL = Some("DEBUG")
    /\ config[1] = [solver |-> "SCIP", log_level |-> "DEBUG"]

\* C18: when the backend named by solver_name cannot be constructed,
\* create_model falls back to CBC, builds the whole model on it and records
\* solver_name = "CBC"; when CBC cannot be constructed either, create_model
\* fails with an error and publishes no model.
C18_SolverFallback ==
    /\ created_solvers = <<FALSE, TRUE>> =>
         /\ solver_name = "CBC"
         /\ pc = "failed" => linearization_raises(data[1])
         /\ pc # "failed" =>
              /\ solver # None
              /\ DOMAIN x[1] = Pool \X Range(data[1].bases) \X Range(data[1].periods)
                                 \X Range(data[1].shifts)
              /\ Range(x[1]) \cup Range(avoidance_vars[1]) = solver[1].variables
              /\ DOMAIN solver[1].objective = solver[1].variables
              /\ \A m \in Pool : \E c \in solver[1].constraints :
                    c.name = <<"mechanic_single_assignment", m>>
              /\ \A t \in Slots : ActiveAt(t, <<"aw139">>) =>
                    \E c \in solver[1].constraints :
                      c.name = <<"skill", <<"aw139", "_af">>, t[1], t[2], t[3]>>
    /\ created_solvers = <<FALSE, FALSE>> =>
         /\ pc = "failed"
         /\ called = "create_model" => raised = "AttributeError"
         /\ solver = None
         /\ x = None

\* a model built on the CBC fallback and solved
C18_Witness ==
    /\ created_solvers = <<FALSE, TRUE>>
    /\ solver_name = "CBC"
    /\ pc = "solved"
    /\ HasSolution
    /\ Assigned # {}

\* the slot of a rendered row
RowSlot(row) ==
    <<base_of_letter(row.base), row.group, row.shift>>

\* C19: a rendered mechanic has position "Inspector" if and only if at the
\* mechanic's own slot (same base, period and shift) some inspector column is
\* active, the mechanic holds that inspector skill, and another mechanic
\* assigned to that same slot holds the matching regular skill.
C19_InspectorPosition ==
    pc = "rendered" =>
      \A n \in DOMAIN positions :
        LET row == positions[n]
            m == row.mechanic_id
        IN (row.position = "Inspector") <=>
             \E c \in InspectorColumns :
               /\ ActiveAt(RowSlot(row), c)
               /\ Holds(m, c)
               /\ \E o \in At(ExtractedSet, RowSlot(row)) \ {m} : Holds(o, RegularOf(c))

\* the dictionary has value 1 under discipline k of some aircraft
HoldsDiscipline(sd, k) ==
    \E c \in DOMAIN sd : c[2] = k /\ sd[c] = 1

\* C20: a mechanic not labelled Inspector has position "Avionic" exactly
\* when the mechanic holds an avionics skill on some aircraft and does not
\* hold both an airframe skill on some aircraft and an engine skill on some
\* aircraft; in every other case, with no skills at all too, the position is
\* "Mechanic".
C20_NonInspectorPosition ==
    (position # None /\ ~position_args[1].has_inspector_skill_for_shift) =>
      LET sd == position_args[1].mechanic_skills_dict
          avionic == /\ HoldsDiscipline(sd, "_av")
                     /\ ~(HoldsDiscipline(sd, "_af") /\ HoldsDiscipline(sd, "_r"))
      IN /\ avionic => position[1] = "Avionic"
         /\ ~avionic => position[1] = "Mechanic"

\* Avionic for a mechanic with avionics on one aircraft, airframe on
\* another and no engine skill
C20_Witness ==
    /\ position = Some("Avionic")
    /\ ~position_args[1].has_inspector_skill_for_shift
    /\ LET sd == position_args[1].mechanic_skills_dict
       IN /\ DOMAIN sd = RegularColumns
          /\ sd[<<"h175", "_av">>] = 1
          /\ sd[<<"aw139", "_av">>] = 0
          /\ sd[<<"aw139", "_af">>] = 1
          /\ ~HoldsDiscipline(sd, "_r")

\* the values of column c in a table, as a set
ColumnValues(df, c) == {df.rows[i][c][1] : i \in DOMAIN df.rows}

\* a sequence of numbers in strictly increasing order
StrictlyIncreasing(q) == \A i, j \in DOMAIN q : i < j => q[i] < q[j]

\* C21: whatever the order of the input rows and whatever values repeat,
\* the mechanics, bases, periods and shifts returned by load_data are
\* strictly increasing sequences holding exactly the distinct mechanic_id,
\* base_id, period and shift values of the skills and schedule tables.
C21_CanonicalIds ==
    data # None =>
      LET d == data[1]
      IN /\ StrictlyIncreasing(d.mechanics)
         /\ StrictlyIncreasing(d.bases)
         /\ StrictlyIncreasing(d.periods)
         /\ StrictlyIncreasing(d.shifts)
         /\ Range(d.mechanics) = ColumnValues(d.mechanic_skills_df, <<"mechanic_id">>)
         /\ Range(d.bases) = ColumnValues(d.base_schedule_df, <<"base_id">>)
         /\ Range(d.periods) = ColumnValues(d.base_schedule_df, <<"period">>)
         /\ Range(d.shifts) = ColumnValues(d.base_schedule_df, <<"shift">>)

\* loaded from a skills table listing the ids 3, 1, 3 and a schedule whose
\* rows come in decreasing order of base, period and shift
C21_Witness ==
    /\ data # None
    /\ Len(data[1].mechanic_skills_df.rows) = 3
    /\ data[1].mechanic_skills_df.rows[1][<<"mechanic_id">>] = Cell(3)
    /\ data[1].mechanic_skills_df.rows[2][<<"mechanic_id">>] = Cell(1)
    /\ data[1].mechanic_skills_df.rows[3][<<"mechanic_id">>] = Cell(3)
    /\ data[1].mechanics = <<1, 3>>
    /\ Len(ScheduleRows) = 2
    /\ row_slot(ScheduleRows[1]) = <<2, 2, 2>>
    /\ row_slot(ScheduleRows[2]) = <<1, 1, 1>>
    /\ data[1].bases = <<1, 2>>

\* C22: the objective coefficient of x[m,b,g,s] is cost[(m,b)] whatever the
\* period g and the shift s, and 0 when the cost table has no entry for
\* (m,b) (no row for the mechanic, or no column for the base).
C22_CostShape ==
    solver # None =>
      /\ \A k \in DOMAIN x[1] :
           solver[1].objective[x[1][k]] =
             IF <<k[1], k[2]>> \in DOMAIN data[1].cost_dict
             THEN data[1].cost_dict[<<k[1], k[2]>>] ELSE 0
      /\ \A k, l \in DOMAIN x[1] :
           (k[1] = l[1] /\ k[2] = l[2]) =>
             solver[1].objective[x[1][k]] = solver[1].objective[x[1][l]]

\* a model over two periods and two shifts, built with a cost table that
\* prices one mechanic and has no row for another
C22_Witness ==
    /\ solver # None
    /\ data[1].periods = <<1, 2>>
    /\ data[1].shifts = <<1, 2>>
    /\ \E m \in Pool : <<m, 1>> \notin DOMAIN data[1].cost_dict
                       /\ solver[1].objective[x[1][<<m, 1, 2, 2>>]] = 0
    /\ \E m \in Pool : <<m, 1>> \in DOMAIN data[1].cost_dict
                       /\ data[1].cost_dict[<<m, 1>>] > 0
                       /\ solver[1].objective[x[1][<<m, 1, 2, 2>>]] = data[1].cost_dict[<<m, 1>>]

\* the constraints of the skill-coverage and inspector-coverage families
CoverageConstraints ==
    {c \in solver[1].constraints : c.name[1] \in {"skill", "inspector"}}

\* the point that sets variable v to 1 and every other variable to 0
OnlyVariable(v) == [w \in solver[1].variables |-> IF w = v THEN 1 ELSE 0]

\* the cell of column c in the schedule row of a coverage constraint
DemandOf(c) ==
    ScheduleRows[c.row][IF c.name[1] = "skill" THEN <<c.name[2][1]>> ELSE c.name[2]]

\* C23: every skill-coverage and inspector-coverage constraint asks for at
\* least 1 holder at the slot (lower bound 1, no upper bound, coefficient 1
\* on each holder), whatever the positive count or requirement n of its row,
\* so one assigned holder alone satisfies it.
C23_CoverageRhsIsOne ==
    solver # None =>
      \A c \in CoverageConstraints :
        /\ DemandOf(c)[1] >= 1
        /\ c.lb = <<1>>
        /\ c.ub = <<>>
        /\ \A v \in DOMAIN c.coef :
             /\ c.coef[v] = 1
             /\ satisfies(c, OnlyVariable(v))

\* the holders a coverage constraint counts that the solution assigns
AssignedHolders(c) == {v \in DOMAIN c.coef : values[1][v] = 1}

\* a solution that places, at a slot with two aircraft and an inspector
\* requirement of 2, exactly one holder of the inspector skill and exactly
\* one holder of a discipline
C23_Witness ==
    /\ HasSolution
    /\ \E c, e \in CoverageConstraints :
         /\ c.name[1] = "inspector"
         /\ DemandOf(c) = Cell(2)
         /\ Cardinality(AssignedHolders(c)) = 1
         /\ e.name[1] = "skill"
         /\ e.row = c.row
         /\ DemandOf(e) = Cell(2)
         /\ Cardinality(AssignedHolders(e)) = 1

\* the constraints of a family that schedule row i and column c gave rise
\* to (c is the discipline column of a skill constraint, the inspector
\* column of the other two families)
ConstraintsOf(family, i, c) ==
    {k \in solver[1].constraints : k.name[1] = family /\ k.row = i /\ k.name[2] = c}

\* the cell of row i in column c is a positive number
PositiveCell(i, c) ==
    c \in ScheduleCols /\ ScheduleRows[i][c] # NaN /\ ScheduleRows[i][c][1] > 0

\* the x variables of the pool's holders of column c at the slot of row i
HolderVariables(i, c) ==
    {x[1][<<m>> \o row_slot(ScheduleRows[i])] : m \in {h \in Pool : Holds(h, c)}}

\* C24: in the model create_model returns, a schedule row whose aircraft
\* count is 0, or whose aircraft column is absent, has no skill-coverage
\* constraint for that aircraft; a row whose inspector cell is null or <= 0
\* has neither an inspector-coverage nor a no-self-inspection constraint;
\* every positive cell has its constraint, over the holders of the skill,
\* also when nobody holds the skill: the constraint then has no variable and
\* no solve of the model gives a solution.
C24_InactiveDemand ==
    solver # None =>
      /\ called = "create_model" =>
           /\ \A i \in DOMAIN ScheduleRows : \A a \in {"aw139", "h175", "sk92"} :
                \A d \in {"_af", "_r", "_av"} :
                  IF PositiveCell(i, <<a>>)
                  THEN \E k \in ConstraintsOf("skill", i, <<a, d>>) :
                         /\ ConstraintsOf("skill", i, <<a, d>>) = {k}
                         /\ k.lb = <<1>>
                         /\ DOMAIN k.coef = HolderVariables(i, <<a, d>>)
                  ELSE ConstraintsOf("skill", i, <<a, d>>) = {}
           /\ \A i \in DOMAIN ScheduleRows : \A c \in InspectorColumns :
                IF PositiveCell(i, c)
                THEN \E k \in ConstraintsOf("inspector", i, c) :
                       /\ ConstraintsOf("inspector", i, c) = {k}
                       /\ k.lb = <<1>>
                       /\ DOMAIN k.coef = HolderVariables(i, c)
                ELSE /\ ConstraintsOf("inspector", i, c) = {}
                     /\ ConstraintsOf("no_self_inspect", i, c) = {}
      /\ HasSolution =>
           \A i \in DOMAIN ScheduleRows :
             /\ \A c \in InspectorColumns :
                  PositiveCell(i, c) => HolderVariables(i, c) # {}
             /\ PositiveCell(i, <<"aw139">>) =>
                  \A d \in {"_af", "_r", "_av"} : HolderVariables(i, <<"aw139", d>>) # {}

\* a solved model whose schedule has a row with an aircraft count of 0 and
\* an inspector requirement that nobody in the pool can meet
C24_Witness ==
    /\ status # None
    /\ status[1] = "INFEASIBLE"
    /\ \E i \in DOMAIN ScheduleRows :
         /\ ScheduleRows[i][<<"aw139">>] = Cell(0)
         /\ PositiveCell(i, AirframeInspector)
         /\ HolderVariables(i, AirframeInspector) = {}
         /\ \E k \in ConstraintsOf("inspector", i, AirframeInspector) : DOMAIN k.coef = {}
         /\ ConstraintsOf("skill", i, <<"aw139", "_af">>) = {}

\* the loaded data is the data the optimizer's model was built from
ModelOfLoadedData ==
    /\ ~linearization_raises(data[1])
    /\ [solver[1] EXCEPT !.time_limit = None] = create_model(data[1]).solver

\* the objective values with which another run of create_model and solve on
\* the loaded data can end with status OPTIMAL
OptimalObjectives ==
    LET again == create_model(data[1]).solver
    IN {objective_at(again, v) : v \in optimal_points(again, feasible_points(again))}

C26_ObjectiveDecomposition ==
    (pc = "done" /\ HasSolution) =>
      objective_value = total_cost + total_avoidance_penalty

\* an incumbent with a movement cost and a penalised pair at one slot
C26_Witness ==
    /\ pc = "done"
    /\ HasSolution
    /\ total_cost > 0
    /\ total_avoidance_penalty > 0
    /\ \E k \in DOMAIN avoidance_vars[1] : values[1][avoidance_vars[1][k]] = 0

\* C27: in a run of the application load_data is called only with the
\* three required workbooks uploaded, create_model only after load_data and
\* solve only after a create_model that returned; extract_solution only
\* after a solve that returned OPTIMAL or FEASIBLE and the workbook only
\* after that extraction; with any other status neither is called and no
\* roster exists.
C27_PipelineOrder ==
    [][ /\ called' = "load_data" => (uploaded = RequiredFiles /\ called = "none")
        /\ called' = "create_model" => called = "load_data"
        /\ called' = "solve" => (called = "create_model" /\ raised = "none")
        /\ called' = "extract_solution" =>
              (called = "solve" /\ status[1] \in {"OPTIMAL", "FEASIBLE"})
        /\ called' = "generate_output" =>
              (status[1] \in {"OPTIMAL", "FEASIBLE"} /\ pc = "done"
               /\ total_cost = sum_costs(assignments))
        /\ (status' # None /\ status'[1] \notin {"OPTIMAL", "FEASIBLE"}) =>
              /\ called' \notin {"extract_solution", "generate_output"}
              /\ assignments' = <<>>
              /\ positions' = <<>>
        /\ uploaded' # RequiredFiles => (data' = None /\ solver' = None) ]_vars

\* a run that reached the workbook, with a roster of at least two rows
C27_Witness ==
    /\ pc = "rendered"
    /\ called = "generate_output"
    /\ uploaded = RequiredFiles
    /\ time_limit_seconds = None
    /\ status[1] = "OPTIMAL"
    /\ Len(positions) >= 2

\* the six fields create_model publishes
Published ==
    <<solver, x, mechanic_skills, mechanic_inspector_skills, inspector_req_columns,
      avoidance_vars>>

\* C28: a create_model call that raises leaves solver, x, mechanic_skills,
\* mechanic_inspector_skills, inspector_req_columns and avoidance_vars as
\* they were (None on a fresh optimizer, the earlier model otherwise); a
\* create_model call that returns sets all six from the data of this call
\* only, nothing of the earlier model remaining.
C28_PublishOnSuccess ==
    [][ /\ (called' = "solve" /\ solver = None) => (raised' = SolveError /\ solver' = None)
        /\ called' = "create_model" =>
          IF raised' # "none"
          THEN /\ Published' = Published
               /\ solver = None => (x' = None /\ avoidance_vars' = None)
          ELSE LET d == data[1]
               IN /\ \A i \in DOMAIN Published' : Published'[i] # None
                  /\ DOMAIN x'[1] = Range(d.mechanics) \X Range(d.bases)
                                       \X Range(d.periods) \X Range(d.shifts)
                  /\ DOMAIN avoidance_vars'[1] =
                       {<<p[1], p[2], t[1], t[2], t[3]>> :
                          p \in {q \in DOMAIN d.avoidance_dict : q[1] < q[2]},
                          t \in slots_of(d)}
                  /\ solver'[1].variables = Range(x'[1]) \cup Range(avoidance_vars'[1])
                  /\ DOMAIN solver'[1].objective = solver'[1].variables
                  /\ \A c \in solver'[1].constraints :
                       DOMAIN c.coef \subseteq solver'[1].variables
                  /\ solver'[1].time_limit = None
                  /\ DOMAIN mechanic_skills'[1] = Range(d.mechanics)
                  /\ DOMAIN mechanic_inspector_skills'[1] = Range(d.mechanics)
                  /\ inspector_req_columns'[1] =
                       {c \in d.base_schedule_df.columns : c[Len(c)] = "_inspec"} ]_vars

\* a second create_model has just raised on the pair outside the pool, and
\* the optimizer still holds the model of the first call, with the y
\* variables of the pair (1,2) that the new data does not list
C28_Witness ==
    /\ pc = "failed"
    /\ called = "create_model"
    /\ raised = "KeyError"
    /\ solver # None
    /\ <<1, 2>> \notin DOMAIN data[1].avoidance_dict
    /\ DOMAIN avoidance_vars[1] = {<<1, 2, 1, 1, 1>>}
    /\ solver[1].time_limit # None

\* C29: a solve call that passes a non-zero time limit sets the backend
\* limit to 1000 times it; a call that passes None or 0 leaves the limit as
\* the previous calls left it, so a limit once set is never cleared; no
\* other part of the model changes, and an answer FEASIBLE or NOT_SOLVED
\* needs a limit in force.
C29_TimeLimitAcrossSolves ==
    [][ (called' = "solve" /\ raised' = "none") =>
          /\ solver'[1].time_limit =
               IF time_limit_seconds' # None /\ time_limit_seconds'[1] # 0
               THEN Some(time_limit_seconds'[1] * 1000)
               ELSE solver[1].time_limit
          /\ solver[1].time_limit # None => solver'[1].time_limit # None
          /\ [solver'[1] EXCEPT !.time_limit = None] = [solver[1] EXCEPT !.time_limit = None]
          /\ status'[1] \in {"FEASIBLE", "NOT_SOLVED"} => solver'[1].time_limit # None ]_vars

\* solve(0) has just answered FEASIBLE under the 30 s limit of an earlier
\* call, on a model that was solved at least twice
C29_Witness ==
    /\ pc = "solved"
    /\ called = "solve"
    /\ time_limit_seconds = Some(0)
    /\ solver[1].time_limit = Some(30000)
    /\ status[1] = "FEASIBLE"

\* the keys (m1 < m2) of the avoidance map that name a mechanic who is not
\* in the mechanics sequence
PairsOutsidePool == {p \in CanonicalPairs : p[1] \notin Pool \/ p[2] \notin Pool}

\* the keys (m, m) of the avoidance map
SelfPairs == {p \in DOMAIN data[1].avoidance_dict : p[1] = p[2]}

\* create_model has been called and a backend was at hand
CreateModelRan == created_solvers # <<>> /\ created_solvers[Len(created_solvers)]

\* C30: when the avoidance map has a pair (m1 < m2) with m1 or m2 outside
\* the mechanics sequence, and bases, periods and shifts are non-empty,
\* create_model raises (a KeyError in the linearization loop) and no model
\* is published; a key (m, m) of the map gives no y variable, no
\* constraint and no objective term.
C30_PairsOutsidePool ==
    CreateModelRan =>
      /\ (PairsOutsidePool # {} /\ Slots # {}) =>
           /\ pc = "failed"
           /\ called = "create_model" => raised = "KeyError"
           /\ solver = None
           /\ x = None
           /\ avoidance_vars = None
      /\ PairsOutsidePool = {} =>
           /\ solver # None
           /\ \A p \in SelfPairs :
                /\ \A k \in DOMAIN avoidance_vars[1] : <<k[1], k[2]>> # p
                /\ \A v \in solver[1].variables :
                     v[1] = "y_avoid" => <<v[2], v[3]>> # p
                /\ \A c \in solver[1].constraints :
                     c.name[1] \in {"avoid_y_le_x1", "avoid_y_le_x2", "avoid_y_ge_sum"}
                       => <<c.name[2], c.name[3]>> # p
           /\ Cardinality({v \in solver[1].variables : v[1] = "y_avoid"}) =
                Cardinality(CanonicalPairs) * Cardinality(Slots)

\* create_model has just raised on a map that lists a mechanic outside the
\* pool next to a pair (m, m)
C30_Witness ==
    /\ CreateModelRan
    /\ called = "create_model"
    /\ raised = "KeyError"
    /\ PairsOutsidePool # {}
    /\ SelfPairs # {}
    /\ solver = None

====
